---- MODULE Spec2Model ----
(***************************************************************************)
(* Virtual try-on: the tracking session of main.js (camera lifecycle,      *)
(* throttled single-flight detection, temporal smoothing, face-loss grace  *)
(* period) together with detectFace of face.js.                            *)
(*                                                                         *)
(* JavaScript runs one callback at a time, so every action below is one    *)
(* callback run to completion: a click handler, a requestAnimationFrame    *)
(* callback, or the continuation that runs when an awaited promise         *)
(* settles.  Numbers are fixed-point integers: pixels for positions,        *)
(* hundredths for roll and yaw, milliseconds for performance.now().        *)
(* The FPS counter (fpsCount, fpsLast, fps) and the info-panel and status  *)
(* texts are display only and are left out.                                *)
(***************************************************************************)
EXTENDS Integers, Sequences, FiniteSets, TLC

(* ---------------------------- program constants ------------------------ *)

detectionInterval == 2

smoothingFactor == 35

faceTimeoutMs == 500

NumGlasses == 3

MAX_HISTORY == 30

(* ------------------------------- bounds -------------------------------- *)

MaxFrames == 4

MaxStarts == 2

MaxRaf == 2

MaxInflight == 2

MaxCalls == 3

\* The detector invocations and the video times followed for the counters
\* of face.js.
MaxAttempts == 3

MaxTime == 2

MaxRestores == 1

MaxCrops == 1

MaxRemovals == 1

MaxLoading == 1

MaxSnapshots == 3

\* The widest image splitGlassesImage is applied to.
MaxWidth == 60

(* ------------------------------- values -------------------------------- *)

\* JavaScript null, for the fields that hold either null or an object.
None == [none |-> TRUE]

\* The instants performance.now() is sampled at: the start, and the three
\* instants around the end of a grace period that began at 0.
Instants == {0, faceTimeoutMs - 1, faceTimeoutMs, faceTimeoutMs + 1}

\* The raw transforms extractFaceTransform returns for the faces the detector
\* reports (only the fields applySmoothing reads).
RawTransforms ==
  { [center |-> [x |-> 320, y |-> 240], eyeDistance |-> 100, roll |-> 0,
     yaw |-> 0, keypoints |-> "kpA"],
    [center |-> [x |-> 340, y |-> 220], eyeDistance |-> 120, roll |-> 20,
     yaw |-> -20, keypoints |-> "kpB"] }

VARIABLES
  running,           \* state.running
  stream,            \* state.stream is set
  video,             \* the <video> element: "none", "loading" or "playing"
  btnStartDisabled,  \* btnStart.disabled
  btnStopDisabled,   \* btnStop.disabled
  frameCount,        \* state.frameCount
  currentFrameIndex, \* state.currentFrameIndex
  smooth,            \* state.smooth
  lastRawTransform,  \* state.lastRawTransform
  lastFaceTime,      \* state.lastFaceTime
  modelReady,        \* modelReady
  detecting,         \* detecting
  detector,          \* face.js detector: "loading", "ready" or "failed"
  glassesAssets,     \* glassesAssets.length
  now,               \* performance.now()
  awaitingMedia,     \* startCamera calls awaiting getUserMedia
  awaitingPlay,      \* startCamera calls awaiting video.play()
  rafPending,        \* renderLoop callbacks queued by requestAnimationFrame
  pending,           \* detectFace calls started by runDetection, not settled
  canvas,            \* what the output canvas shows, and when it was drawn
  request,           \* what the last tick's runDetection call did
  lastResult,        \* what the last settled detectFace call returned
  freshSession,      \* no detection was applied since the last start
  arg,               \* the arguments of the function applied on its own
  ret,               \* what that function returned
  workCanvas,        \* editor.js: the work canvas, its size and content
  originalImageData, \* editor.js: originalImageData
  history,           \* editor.js: history
  histIndex,         \* editor.js: histIndex
  imageLoaded,       \* editor.js: imageLoaded
  tool,              \* editor.js: tool.active and tool.isDrawing
  isPanning,         \* editor.js: view.isPanning
  btnAutoRemoveDisabled, \* editor.js: btnAutoRemove.disabled
  loading,           \* editor.js: loadImageFile calls awaiting their bitmap
  removing,          \* editor.js: autoRemoveBg calls awaiting their result
  used               \* editor.js: how many rare edits were made so far

vars ==
  <<running, stream, video, btnStartDisabled, btnStopDisabled, frameCount,
    currentFrameIndex, smooth, lastRawTransform, lastFaceTime, modelReady,
    detecting, detector, glassesAssets, now, awaitingMedia, awaitingPlay,
    rafPending, pending, canvas, request, lastResult, freshSession, arg, ret,
    workCanvas, originalImageData, history, histIndex, imageLoaded, tool,
    isPanning, btnAutoRemoveDisabled, loading, removing, used>>

(* ------------------------ main.js: transform smoothing ------------------ *)

\* lerp with the sign of its step reversed.
lerpAway(a, b, t) == a - (((b - a) * t) \div 100)

\* lerp with the weights of its two ends exchanged.
lerpTowardOld(a, b, t) == a + (((b - a) * (100 - t)) \div 100)

\* lerp(a, b, t) = a + (b - a) * t, with t in hundredths; the product is
\* rounded down to the fixed-point grid.
lerp(a, b, t) == a + (((b - a) * t) \div 100)

buildSmoothed(s, keypoints) ==
  [center |-> [x |-> s.centerX, y |-> s.centerY], eyeDistance |-> s.eyeDistance,
   roll |-> s.roll, yaw |-> s.yaw, keypoints |-> keypoints]

\* applySmoothing blending the first pose from zero instead of seeding.
smoothAfterSeedBlended(s, raw, a) ==
  LET z == IF s = None
             THEN [centerX |-> 0, centerY |-> 0, eyeDistance |-> 0, roll |-> 0,
                   yaw |-> 0]
             ELSE s
  IN  [centerX |-> lerp(z.centerX, raw.center.x, a),
       centerY |-> lerp(z.centerY, raw.center.y, a),
       eyeDistance |-> lerp(z.eyeDistance, raw.eyeDistance, a),
       roll |-> lerp(z.roll, raw.roll, a),
       yaw |-> lerp(z.yaw, raw.yaw, a),
       keypoints |-> raw.keypoints]

\* The value applySmoothing leaves in state.smooth.
smoothAfter(s, raw, a) ==
  IF s = None
    THEN [centerX |-> raw.center.x, centerY |-> raw.center.y,
          eyeDistance |-> raw.eyeDistance, roll |-> raw.roll, yaw |-> raw.yaw,
          keypoints |-> raw.keypoints]
    ELSE [centerX |-> lerp(s.centerX, raw.center.x, a),
          centerY |-> lerp(s.centerY, raw.center.y, a),
          eyeDistance |-> lerp(s.eyeDistance, raw.eyeDistance, a),
          roll |-> lerp(s.roll, raw.roll, a),
          yaw |-> lerp(s.yaw, raw.yaw, a),
          keypoints |-> raw.keypoints]

\* applySmoothing(raw): updates state.smooth and returns the smoothed pose.
applySmoothing(raw) ==
  /\ smooth' = smoothAfter(smooth, raw, smoothingFactor)
  /\ lastRawTransform' = buildSmoothed(smooth', raw.keypoints)

(* ------------------------------ initial state --------------------------- *)

Blank == [video |-> FALSE, overlay |-> None, at |-> 0]

NoResult == [outcome |-> "none", raw |-> None]

\* The page before anything has run: the initial values of main.js and
\* face.js, but for glassesAssets.
PageIdle ==
  /\ running = FALSE
  /\ stream = FALSE
  /\ video = "none"
  /\ btnStartDisabled = TRUE
  /\ btnStopDisabled = TRUE
  /\ frameCount = 0
  /\ currentFrameIndex = 0
  /\ smooth = None
  /\ lastRawTransform = None
  /\ lastFaceTime = 0
  /\ modelReady = FALSE
  /\ detecting = FALSE
  /\ detector = "loading"
  /\ now = 0
  /\ awaitingMedia = 0
  /\ awaitingPlay = 0
  /\ rafPending = 0
  /\ pending = <<>>
  /\ canvas = Blank
  /\ request = "none"
  /\ lastResult = NoResult
  /\ freshSession = FALSE

\* The page before anything has run, glassesAssets being empty (the session
\* keeps its length only).
Idle == PageIdle /\ glassesAssets = 0

\* The editor page before anything has run.  The work canvas has no image
\* yet: nothing reads it before the first load.
NoImage ==
  [width |-> 0, height |-> 0, erased |-> 0, bgRemoved |-> FALSE,
   garbled |-> FALSE]

EditorIdle ==
  /\ workCanvas = NoImage
  /\ originalImageData = None
  /\ history = <<>>
  /\ histIndex = -1
  /\ imageLoaded = FALSE
  /\ tool = [active |-> "eraser", isDrawing |-> FALSE]
  /\ isPanning = FALSE
  /\ btnAutoRemoveDisabled = TRUE
  /\ loading = {}
  /\ removing = <<>>
  /\ used = [restores |-> 0, crops |-> 0, removals |-> 0]

Init == Idle /\ arg = None /\ ret = None /\ EditorIdle

sessionVars ==
  <<running, stream, video, btnStopDisabled, frameCount, awaitingMedia,
    awaitingPlay, rafPending, freshSession>>

trackVars == <<smooth, lastRawTransform, lastFaceTime>>

detectVars == <<detecting, pending, request, lastResult>>

callVars == <<arg, ret>>

editorVars ==
  <<workCanvas, originalImageData, history, histIndex, imageLoaded, tool,
    isPanning, btnAutoRemoveDisabled, loading, removing, used>>

(* ------------------------------ main.js: init --------------------------- *)

\* init() going on to the ready state although the detector failed.
initIgnoresFailure(assets, det) ==
  IF assets = NumGlasses /\ det # "loading"
    THEN modelReady' = TRUE /\ btnStartDisabled' = FALSE
    ELSE UNCHANGED <<modelReady, btnStartDisabled>>

\* The continuation of init() after Promise.all: runs once both the assets
\* and the detector are there.
init(assets, det) ==
  IF assets = NumGlasses /\ det = "ready"
    THEN modelReady' = TRUE /\ btnStartDisabled' = FALSE
    ELSE UNCHANGED <<modelReady, btnStartDisabled>>

\* One iteration of the loop of loadGlassesAssets: an image (or its fallback)
\* is pushed.
loadGlassesAssets ==
  /\ glassesAssets < NumGlasses
  /\ glassesAssets' = glassesAssets + 1
  /\ init(glassesAssets', detector)
  /\ UNCHANGED <<sessionVars, trackVars, detectVars, currentFrameIndex,
                 detector, now, canvas,
                 callVars,
                 editorVars>>

\* createDetector resolves.
initFaceDetector ==
  /\ detector = "loading"
  /\ detector' = "ready"
  /\ init(glassesAssets, detector')
  /\ UNCHANGED <<sessionVars, trackVars, detectVars, currentFrameIndex,
                 glassesAssets, now, canvas,
                 callVars,
                 editorVars>>

\* createDetector rejects: init() reports the failure and leaves modelReady.
initFaceDetectorFails ==
  /\ detector = "loading"
  /\ detector' = "failed"
  /\ UNCHANGED <<sessionVars, trackVars, detectVars, currentFrameIndex,
                 glassesAssets, now, canvas, modelReady, btnStartDisabled,
                 callVars,
                 editorVars>>

(* -------------------------- main.js: camera lifecycle -------------------- *)

\* Click on Start: startCamera runs up to its await of getUserMedia.
startCamera ==
  /\ ~btnStartDisabled
  /\ awaitingMedia + awaitingPlay < MaxStarts
  /\ awaitingMedia' = awaitingMedia + 1
  /\ UNCHANGED <<running, stream, video, btnStopDisabled, frameCount,
                 awaitingPlay, rafPending, freshSession, trackVars, detectVars,
                 currentFrameIndex, detector, glassesAssets, now, canvas,
                 modelReady, btnStartDisabled,
                 callVars,
                 editorVars>>

\* getUserMedia resolves: the stream becomes the video's source and play()
\* is awaited.  Loading a new source rejects a play() still pending on the
\* old one; that call ends in handleCameraError.
startCameraGotStream ==
  /\ awaitingMedia > 0
  /\ awaitingMedia' = awaitingMedia - 1
  /\ stream' = TRUE
  /\ video' = "loading"
  /\ awaitingPlay' = 1
  /\ UNCHANGED <<running, btnStopDisabled, frameCount, rafPending, freshSession,
                 trackVars, detectVars, currentFrameIndex, detector,
                 glassesAssets, now, canvas, modelReady, btnStartDisabled,
                 callVars,
                 editorVars>>

\* getUserMedia or play() rejects: handleCameraError only sets the status.
handleCameraError ==
  /\ \/ awaitingMedia > 0 /\ awaitingMedia' = awaitingMedia - 1
        /\ UNCHANGED awaitingPlay
     \/ awaitingPlay > 0 /\ awaitingPlay' = awaitingPlay - 1
        /\ UNCHANGED awaitingMedia
  /\ UNCHANGED <<running, stream, video, btnStopDisabled, frameCount,
                 rafPending, freshSession, trackVars, detectVars,
                 currentFrameIndex, detector, glassesAssets, now, canvas,
                 modelReady, btnStartDisabled,
                 callVars,
                 editorVars>>

\* play() resolves: the rest of startCamera.
startCameraPlaying ==
  /\ awaitingPlay > 0
  /\ rafPending < MaxRaf
  /\ awaitingPlay' = awaitingPlay - 1
  /\ video' = "playing"
  /\ running' = TRUE
  /\ frameCount' = 0
  /\ btnStartDisabled' = TRUE
  /\ btnStopDisabled' = FALSE
  /\ rafPending' = rafPending + 1
  /\ freshSession' = TRUE
  /\ UNCHANGED <<stream, awaitingMedia, trackVars, detectVars,
                 currentFrameIndex, detector, glassesAssets, now, canvas,
                 modelReady,
                 callVars,
                 editorVars>>

\* stopCamera as it would be if it also released the in-flight guard.
stopCameraResetsGuard ==
  /\ ~btnStopDisabled
  /\ running' = FALSE
  /\ stream' = FALSE
  /\ video' = "none"
  /\ awaitingPlay' = 0
  /\ btnStartDisabled' = FALSE
  /\ btnStopDisabled' = TRUE
  /\ canvas' = [video |-> FALSE, overlay |-> None, at |-> now]
  /\ smooth' = None
  /\ lastRawTransform' = None
  /\ detecting' = FALSE
  /\ UNCHANGED <<frameCount, awaitingMedia, rafPending, freshSession,
                 lastFaceTime, pending, request, lastResult, currentFrameIndex,
                 detector, glassesAssets, now, modelReady,
                 callVars,
                 editorVars>>

\* stopCamera without its reset of the tracking state.
stopCameraKeepsPose ==
  /\ ~btnStopDisabled
  /\ running' = FALSE
  /\ stream' = FALSE
  /\ video' = "none"
  /\ awaitingPlay' = 0
  /\ btnStartDisabled' = FALSE
  /\ btnStopDisabled' = TRUE
  /\ canvas' = [video |-> FALSE, overlay |-> None, at |-> now]
  /\ UNCHANGED <<frameCount, awaitingMedia, rafPending, freshSession,
                 trackVars, detectVars, currentFrameIndex, detector,
                 glassesAssets, now, modelReady, callVars,
                 editorVars>>

\* Click on Stop.
stopCamera ==
  /\ ~btnStopDisabled
  /\ running' = FALSE
  /\ stream' = FALSE
  /\ video' = "none"
  /\ awaitingPlay' = 0
  /\ btnStartDisabled' = FALSE
  /\ btnStopDisabled' = TRUE
  /\ canvas' = [video |-> FALSE, overlay |-> None, at |-> now]
  /\ smooth' = None
  /\ lastRawTransform' = None
  /\ UNCHANGED <<frameCount, awaitingMedia, rafPending, freshSession,
                 lastFaceTime, detectVars, currentFrameIndex, detector,
                 glassesAssets, now, modelReady,
                 callVars,
                 editorVars>>

(* ------------------------------ face.js: detectFace --------------------- *)

\* What detectFace decides before it calls the detector: an early null, or
\* "detect" when the detector is invoked.
detectFace ==
  IF detector # "ready" THEN {"noDetector"}
  ELSE IF video # "playing" THEN {"videoNotReady"}
  ELSE {"duplicateFrame", "detect"}

\* What a call can settle with.  "malformedFace" is a face whose keypoints
\* extractFaceTransform cannot read: it throws out of runDetection's try.
detectFaceReturns(call) ==
  IF call.early # "detect" THEN {call.early}
  ELSE {"face", "noFace", "detectorError", "malformedFace"}

(* --------------------- main.js: detection and render loop ---------------- *)

\* runDetection without the `detecting` test in its guard.
runDetectionNoGuard ==
  IF ~running \/ ~modelReady \/ Len(pending) >= MaxInflight
    THEN /\ request' = "refused"
         /\ UNCHANGED <<detecting, pending>>
    ELSE /\ detecting' = TRUE
         /\ \E e \in detectFace : pending' = Append(pending, [early |-> e])
         /\ request' = "started"

\* runDetection up to its await: the guard, the flag, the detectFace call.
runDetection ==
  IF ~running \/ ~modelReady \/ detecting
    THEN /\ request' = (IF detecting THEN "dropped" ELSE "refused")
         /\ UNCHANGED <<detecting, pending>>
    ELSE /\ detecting' = TRUE
         /\ \E e \in detectFace : pending' = Append(pending, [early |-> e])
         /\ request' = "started"

\* runDetection discarding a result that arrives after the session stopped.
runDetectionResumesIfRunning(outcome, raw) ==
  /\ IF outcome = "face" /\ running
       THEN /\ applySmoothing(raw)
            /\ lastFaceTime' = now
            /\ freshSession' = FALSE
       ELSE UNCHANGED <<trackVars, freshSession>>
  /\ detecting' = FALSE

\* runDetection dropping the last-known pose when no face is returned.
runDetectionResumesClearsOnNull(outcome, raw) ==
  /\ IF outcome = "face"
       THEN /\ applySmoothing(raw)
            /\ lastFaceTime' = now
            /\ freshSession' = FALSE
       ELSE /\ lastRawTransform' = None
            /\ UNCHANGED <<smooth, lastFaceTime, freshSession>>
  /\ detecting' = FALSE

\* runDetection stamping lastFaceTime outside the `if (face)`.
runDetectionResumesStampsAlways(outcome, raw) ==
  /\ IF outcome = "face"
       THEN /\ applySmoothing(raw)
            /\ freshSession' = FALSE
       ELSE UNCHANGED <<smooth, lastRawTransform, freshSession>>
  /\ lastFaceTime' = now
  /\ detecting' = FALSE

\* runDetection clearing the flag after the try block instead of in a
\* `finally`: an exception leaves it set.
runDetectionResumesNoFinally(outcome, raw) ==
  /\ IF outcome = "face"
       THEN /\ applySmoothing(raw)
            /\ lastFaceTime' = now
            /\ freshSession' = FALSE
       ELSE UNCHANGED <<trackVars, freshSession>>
  /\ detecting' = (detecting /\ outcome \in {"detectorError", "malformedFace"})

\* runDetection after its await: detectFace has settled with `outcome`; for
\* a face, `raw` is what extractFaceTransform makes of its keypoints.  Every
\* other outcome skips the body of `if (face)`, by a null or by the exception
\* of extractFaceTransform; the `finally` clears the flag in all of them.
runDetectionResumes(outcome, raw) ==
  /\ IF outcome = "face"
       THEN /\ applySmoothing(raw)
            /\ lastFaceTime' = now
            /\ freshSession' = FALSE
       ELSE UNCHANGED <<trackVars, freshSession>>
  /\ detecting' = FALSE

\* A pending detectFace call settles and runDetection resumes.
detectionSettles ==
  \E i \in 1..Len(pending) :
    \E outcome \in detectFaceReturns(pending[i]) :
      \E raw \in (IF outcome = "face" THEN RawTransforms ELSE {None}) :
        /\ pending' = SubSeq(pending, 1, i - 1) \o SubSeq(pending, i + 1, Len(pending))
        /\ lastResult' = [outcome |-> outcome, raw |-> raw]
        /\ runDetectionResumes(outcome, raw)
        /\ UNCHANGED <<running, stream, video, btnStopDisabled, frameCount,
                       awaitingMedia, awaitingPlay, rafPending, request,
                       currentFrameIndex, detector, glassesAssets, now, canvas,
                       modelReady, btnStartDisabled,
                       callVars,
                       editorVars>>

\* The overlay test with `<=` for `<`.
overlayInclusive ==
  IF lastRawTransform # None /\ now - lastFaceTime <= faceTimeoutMs
       /\ currentFrameIndex < glassesAssets
    THEN lastRawTransform
    ELSE None

\* The overlay test with a visibility flag that sticks once shown.
overlaySticky ==
  IF lastRawTransform # None
       /\ (now - lastFaceTime < faceTimeoutMs \/ canvas.overlay # None)
       /\ currentFrameIndex < glassesAssets
    THEN lastRawTransform
    ELSE None

\* The overlay drawn at a position extrapolated from the last-known pose.
overlayExtrapolated ==
  IF lastRawTransform # None /\ now - lastFaceTime < faceTimeoutMs
       /\ currentFrameIndex < glassesAssets
    THEN [lastRawTransform EXCEPT
            !.center.x = @ + (now - lastFaceTime)]
    ELSE None

\* The overlay renderLoop draws: the last-known pose while it is fresh.
overlay ==
  IF lastRawTransform # None /\ now - lastFaceTime < faceTimeoutMs
       /\ currentFrameIndex < glassesAssets
    THEN lastRawTransform
    ELSE None

\* renderLoop calling runDetection on every tick (no throttle).
renderLoopEveryTick ==
  /\ rafPending > 0
  /\ IF ~running
       THEN /\ rafPending' = rafPending - 1
            /\ UNCHANGED <<frameCount, canvas, detecting, pending, request>>
       ELSE /\ frameCount < MaxFrames
            /\ frameCount' = frameCount + 1
            /\ runDetection
            /\ canvas' = [video |-> TRUE, overlay |-> overlay, at |-> now]
            /\ UNCHANGED rafPending
  /\ UNCHANGED <<running, stream, video, btnStopDisabled, awaitingMedia,
                 awaitingPlay, freshSession, trackVars, lastResult,
                 currentFrameIndex, detector, glassesAssets, now, modelReady,
                 btnStartDisabled, callVars,
                 editorVars>>

\* renderLoop awaiting the detection: no tick while a call is outstanding.
renderLoopAwaitsDetection ==
  /\ rafPending > 0
  /\ IF ~running
       THEN /\ rafPending' = rafPending - 1
            /\ UNCHANGED <<frameCount, canvas, detecting, pending, request>>
       ELSE /\ frameCount < MaxFrames
            /\ pending = <<>>
            /\ frameCount' = frameCount + 1
            /\ IF frameCount' % detectionInterval = 0
                 THEN runDetection
                 ELSE request' = "none" /\ UNCHANGED <<detecting, pending>>
            /\ canvas' = [video |-> TRUE, overlay |-> overlay, at |-> now]
            /\ UNCHANGED rafPending
  /\ UNCHANGED <<running, stream, video, btnStopDisabled, awaitingMedia,
                 awaitingPlay, freshSession, trackVars, lastResult,
                 currentFrameIndex, detector, glassesAssets, now, modelReady,
                 btnStartDisabled, callVars,
                 editorVars>>

\* renderLoop rethrowing a failed detection: the tick after a failure does
\* not reach its requestAnimationFrame.
renderLoopRethrows ==
  /\ rafPending > 0
  /\ IF ~running
       THEN /\ rafPending' = rafPending - 1
            /\ UNCHANGED <<frameCount, canvas, detecting, pending, request>>
       ELSE /\ frameCount < MaxFrames
            /\ frameCount' = frameCount + 1
            /\ IF frameCount' % detectionInterval = 0
                 THEN runDetection
                 ELSE request' = "none" /\ UNCHANGED <<detecting, pending>>
            /\ canvas' = [video |-> TRUE, overlay |-> overlay, at |-> now]
            /\ rafPending' =
                 IF lastResult.outcome \in {"detectorError", "malformedFace"}
                   THEN rafPending - 1 ELSE rafPending
  /\ UNCHANGED <<running, stream, video, btnStopDisabled, awaitingMedia,
                 awaitingPlay, freshSession, trackVars, lastResult,
                 currentFrameIndex, detector, glassesAssets, now, modelReady,
                 btnStartDisabled, callVars,
                 editorVars>>

\* renderLoop without its test of state.running: a tick of a stopped page
\* draws and queues the next one.
renderLoopNoRunningTest ==
  /\ rafPending > 0
  /\ frameCount < MaxFrames
  /\ frameCount' = frameCount + 1
  /\ IF frameCount' % detectionInterval = 0
       THEN runDetection
       ELSE request' = "none" /\ UNCHANGED <<detecting, pending>>
  /\ canvas' = [video |-> TRUE, overlay |-> overlay, at |-> now]
  /\ UNCHANGED rafPending
  /\ UNCHANGED <<running, stream, video, btnStopDisabled, awaitingMedia,
                 awaitingPlay, freshSession, trackVars, lastResult,
                 currentFrameIndex, detector, glassesAssets, now, modelReady,
                 btnStartDisabled,
                 callVars,
                 editorVars>>

\* A requestAnimationFrame callback runs.
renderLoop ==
  /\ rafPending > 0
  /\ IF ~running
       THEN /\ rafPending' = rafPending - 1
            /\ UNCHANGED <<frameCount, canvas, detecting, pending, request>>
       ELSE /\ frameCount < MaxFrames
            /\ frameCount' = frameCount + 1
            /\ IF frameCount' % detectionInterval = 0
                 THEN runDetection
                 ELSE request' = "none" /\ UNCHANGED <<detecting, pending>>
            /\ canvas' = [video |-> TRUE, overlay |-> overlay, at |-> now]
            /\ UNCHANGED rafPending
  /\ UNCHANGED <<running, stream, video, btnStopDisabled, awaitingMedia,
                 awaitingPlay, freshSession, trackVars, lastResult,
                 currentFrameIndex, detector, glassesAssets, now, modelReady,
                 btnStartDisabled,
                 callVars,
                 editorVars>>

(* ------------------------------- environment ---------------------------- *)

\* The frame selector changes.
frameSelect ==
  /\ \E i \in 0..(NumGlasses - 1) :
       i # currentFrameIndex /\ currentFrameIndex' = i
  /\ UNCHANGED <<sessionVars, trackVars, detectVars, detector, glassesAssets,
                 now, canvas, modelReady, btnStartDisabled,
                 callVars,
                 editorVars>>

\* Time passes.
clock ==
  /\ \E t \in Instants : t > now /\ now' = t
  /\ UNCHANGED <<sessionVars, trackVars, detectVars, currentFrameIndex,
                 detector, glassesAssets, canvas, modelReady, btnStartDisabled,
                 callVars,
                 editorVars>>

Next ==
  \/ loadGlassesAssets
  \/ initFaceDetector
  \/ initFaceDetectorFails
  \/ startCamera
  \/ startCameraGotStream
  \/ handleCameraError
  \/ startCameraPlaying
  \/ stopCamera
  \/ renderLoop
  \/ detectionSettles
  \/ frameSelect
  \/ clock

Spec == Init /\ [][Next]_vars

\* The browser runs every animation-frame callback it holds.
TickingSpec == Spec /\ WF_vars(renderLoop)

(* ----------------------- face.js: extractFaceTransform ------------------ *)

\* The landmark indices extractFaceTransform reads.
LM ==
  [LEFT_EYE_OUTER |-> 33, LEFT_EYE_INNER |-> 133, RIGHT_EYE_INNER |-> 362,
   RIGHT_EYE_OUTER |-> 263, LEFT_IRIS |-> 468, RIGHT_IRIS |-> 473,
   NOSE_TIP |-> 1, LEFT_FACE_EDGE |-> 234, RIGHT_FACE_EDGE |-> 454]

MathMin(a, b) == IF a <= b THEN a ELSE b

MathMax(a, b) == IF a >= b THEN a ELSE b

MathAbs(a) == IF a >= 0 THEN a ELSE -a

\* The largest r in lo..hi with r * r <= n.
RECURSIVE sqrtBetween(_, _, _)
sqrtBetween(n, lo, hi) ==
  IF lo >= hi THEN lo
  ELSE LET mid == (lo + hi + 1) \div 2
       IN  IF mid * mid <= n THEN sqrtBetween(n, mid, hi)
           ELSE sqrtBetween(n, lo, mid - 1)

\* Math.hypot, rounded down to whole pixels.
MathHypot(dx, dy) ==
  sqrtBetween(dx * dx + dy * dy, 0, MathAbs(dx) + MathAbs(dy))

\* atan(y / x) in hundredths of a radian for 0 <= y <= x, x > 0, by the
\* approximation atan(t) = t * (0.7854 + 0.273 * (1 - t)) (error < 0.004).
atanOctant(y, x) == (y * (7854 * x + 2730 * (x - y))) \div (100 * x * x)

\* Math.atan2 in hundredths of a radian (pi = 3.14).
MathAtan2(y, x) ==
  LET ax == MathAbs(x)
      ay == MathAbs(y)
      q  == IF ax = 0 /\ ay = 0 THEN 0
            ELSE IF ay <= ax THEN atanOctant(ay, ax)
            ELSE 157 - atanOctant(ax, ay)
      h  == IF x >= 0 THEN q ELSE 314 - q
  IN  IF y >= 0 THEN h ELSE -h

\* p.z !== undefined: a point without depth has no z field.
HasZ(p) == "z" \in DOMAIN p

midpoint(a, b) ==
  IF HasZ(a) /\ HasZ(b)
    THEN [x |-> (a.x + b.x) \div 2, y |-> (a.y + b.y) \div 2,
          z |-> (a.z + b.z) \div 2]
    ELSE [x |-> (a.x + b.x) \div 2, y |-> (a.y + b.y) \div 2]

dist(a, b) == MathHypot(a.x - b.x, a.y - b.y)

\* clamp without its lower bound.
clampUpperOnly(v, lo, hi) == MathMin(hi, v)

clamp(v, lo, hi) == MathMax(lo, MathMin(hi, v))

\* The eye centres always taken from the eye corners.
eyeCentresFromCorners(keypoints) ==
  [leftEye |-> midpoint(keypoints.at[LM.LEFT_EYE_OUTER],
                        keypoints.at[LM.LEFT_EYE_INNER]),
   rightEye |-> midpoint(keypoints.at[LM.RIGHT_EYE_INNER],
                         keypoints.at[LM.RIGHT_EYE_OUTER])]

\* The eye centres: the iris centres when the topology has them, else the
\* midpoints of the eye corners.
eyeCentres(keypoints) ==
  IF keypoints.length > 473
    THEN [leftEye |-> keypoints.at[LM.LEFT_IRIS],
          rightEye |-> keypoints.at[LM.RIGHT_IRIS]]
    ELSE [leftEye |-> midpoint(keypoints.at[LM.LEFT_EYE_OUTER],
                               keypoints.at[LM.LEFT_EYE_INNER]),
          rightEye |-> midpoint(keypoints.at[LM.RIGHT_EYE_INNER],
                                keypoints.at[LM.RIGHT_EYE_OUTER])]

\* The base yaw with 1 in place of 0 where the distances sum to zero.
baseYawElseOne(keypoints) ==
  LET noseTip == keypoints.at[LM.NOSE_TIP]
      dLeft   == dist(noseTip, keypoints.at[LM.LEFT_FACE_EDGE])
      dRight  == dist(noseTip, keypoints.at[LM.RIGHT_FACE_EDGE])
  IN  IF dLeft + dRight > 0
        THEN ((dLeft - dRight) * 100) \div (dLeft + dRight)
        ELSE 100

\* The yaw from the nose-to-face-edge distances, in hundredths, before the
\* depth signal is blended in.
baseYaw(keypoints) ==
  LET noseTip == keypoints.at[LM.NOSE_TIP]
      dLeft   == dist(noseTip, keypoints.at[LM.LEFT_FACE_EDGE])
      dRight  == dist(noseTip, keypoints.at[LM.RIGHT_FACE_EDGE])
  IN  IF dLeft + dRight > 0
        THEN ((dLeft - dRight) * 100) \div (dLeft + dRight)
        ELSE 0

\* The yaw estimate before it is clamped, in hundredths: the nose-to-edge
\* asymmetry, blended with the depth difference of the eyes when both have z.
yawEstimate(keypoints) ==
  LET leftEye     == eyeCentres(keypoints).leftEye
      rightEye    == eyeCentres(keypoints).rightEye
      eyeDistance == dist(leftEye, rightEye)
      yaw         == baseYaw(keypoints)
      zDiff       == rightEye.z - leftEye.z
      zYaw        == (zDiff * 200) \div MathMax(eyeDistance, 2)
  IN  IF HasZ(leftEye) /\ HasZ(rightEye)
        THEN (yaw * 55 + zYaw * 45) \div 100
        ELSE yaw

extractFaceTransform(keypoints) ==
  LET leftEye  == eyeCentres(keypoints).leftEye
      rightEye == eyeCentres(keypoints).rightEye
  IN  [center |-> midpoint(leftEye, rightEye),
       leftEye |-> leftEye,
       rightEye |-> rightEye,
       eyeDistance |-> dist(leftEye, rightEye),
       roll |-> MathAtan2(rightEye.y - leftEye.y, rightEye.x - leftEye.x),
       yaw |-> clamp(yawEstimate(keypoints), -100, 100),
       keypoints |-> keypoints]

(* --------------------------- faces under test --------------------------- *)

\* The two topology sizes the detector returns: without and with iris points.
Topologies == {468, 478}

\* Where the nose tip lies between the face edges (at x = 80 and x = 240).
NoseXs == {80, 120, 160, 200, 240}

\* The depth of the right eye against the left one; <<>> for keypoints
\* without z.
Depths == {<<>>, <<-200>>, <<40>>, <<200>>}

\* How far the right eye lies below the left one.
Tilts == {0, 60}

\* The keypoints of a face: the landmarks of LM, at the length of its
\* topology.  The iris centres lie off the midpoints of the eye corners.
FaceWithEdges(length, noseX, depth, tilt, leftX, rightX) ==
  LET L(x, y) == IF depth = <<>> THEN [x |-> x, y |-> y]
                 ELSE [x |-> x, y |-> y, z |-> 0]
      R(x, y) == IF depth = <<>> THEN [x |-> x, y |-> y]
                 ELSE [x |-> x, y |-> y, z |-> depth[1]]
      base == (LM.LEFT_EYE_OUTER :> L(100, 100))
           @@ (LM.LEFT_EYE_INNER :> L(140, 100))
           @@ (LM.RIGHT_EYE_INNER :> R(180, 100 + tilt))
           @@ (LM.RIGHT_EYE_OUTER :> R(220, 100 + tilt))
           @@ (LM.NOSE_TIP :> L(noseX, 140))
           @@ (LM.LEFT_FACE_EDGE :> L(leftX, 140))
           @@ (LM.RIGHT_FACE_EDGE :> R(rightX, 140))
      iris == (LM.LEFT_IRIS :> L(124, 104))
           @@ (LM.RIGHT_IRIS :> R(204, 104 + tilt))
  IN  [length |-> length,
       at |-> IF length > 468 THEN base @@ iris ELSE base]

\* A face with its edges at x = 80 and x = 240.
Face(length, noseX, depth, tilt) ==
  FaceWithEdges(length, noseX, depth, tilt, 80, 240)

\* Degenerate keypoints: both face-edge points lie on the nose tip.
CollapsedFaces ==
  { FaceWithEdges(n, 160, z, 0, 160, 160) : n \in Topologies, z \in Depths }

Faces ==
  { Face(n, x, z, t) : n \in Topologies, x \in NoseXs, z \in Depths, t \in Tilts }
    \cup CollapsedFaces

\* The faces that follow the first one in a sequence of detections: turned
\* fully either way, and frontal with a tilt.
LaterFaces ==
  { Face(478, 160, <<-200>>, 0), Face(478, 160, <<200>>, 0),
    Face(468, 160, <<>>, 60) }

\* The smoothing factors under test, in hundredths: 0, the program's, 1.
Factors == {0, smoothingFactor, 100}

(* ------------- extractFaceTransform and applySmoothing alone ------------ *)

\* Everything of the page these calls do not touch.
pageVars ==
  <<sessionVars, detectVars, lastFaceTime, currentFrameIndex, detector,
    glassesAssets, now, canvas, modelReady, btnStartDisabled, editorVars>>

PoseInit ==
  /\ Idle
  /\ EditorIdle
  /\ arg \in [keypoints : Faces, factor : Factors, calls : {0}]
  /\ ret = None

\* raw = extractFaceTransform(face.keypoints)
extractFaceTransformCall ==
  /\ ret = None
  /\ ret' = extractFaceTransform(arg.keypoints)
  /\ UNCHANGED <<arg, smooth, lastRawTransform, pageVars>>

\* state.lastRawTransform = applySmoothing(raw), with arg.factor for
\* state.smoothingFactor; arg.calls counts the calls.
applySmoothingCall ==
  /\ ret # None
  /\ arg.calls < MaxCalls
  /\ smooth' = smoothAfter(smooth, ret, arg.factor)
  /\ lastRawTransform' = buildSmoothed(smooth', ret.keypoints)
  /\ arg' = [arg EXCEPT !.calls = @ + 1]
  /\ UNCHANGED <<ret, pageVars>>

\* The detector reports another face.
nextFace ==
  /\ arg.calls \in 1..(MaxCalls - 1)
  /\ ret # None
  /\ \E kp \in LaterFaces :
       /\ kp # arg.keypoints
       /\ arg' = [arg EXCEPT !.keypoints = kp]
  /\ ret' = None
  /\ UNCHANGED <<smooth, lastRawTransform, pageVars>>

PoseNext == extractFaceTransformCall \/ applySmoothingCall \/ nextFace

PoseSpec == PoseInit /\ [][PoseNext]_vars

(* --------------------------- render.js: drawGlasses --------------------- *)

\* drawGlasses is computed in exact fractions n / d (d > 0, lowest terms),
\* so that a ratio or a doubling is exact.
RECURSIVE gcd(_, _)
gcd(a, b) == IF b = 0 THEN a ELSE gcd(b, a % b)

Q(n, d) ==
  LET g == gcd(MathAbs(n), MathAbs(d))
      s == IF d < 0 THEN -1 ELSE 1
  IN  [n |-> (s * n) \div g, d |-> (s * d) \div g]

QInt(i) == [n |-> i, d |-> 1]

QAdd(a, b) == Q(a.n * b.d + b.n * a.d, a.d * b.d)

QSub(a, b) == Q(a.n * b.d - b.n * a.d, a.d * b.d)

QMul(a, b) == Q(a.n * b.n, a.d * b.d)

QDiv(a, b) == Q(a.n * b.d, a.d * b.n)

ANCHOR_LEFT_X == Q(30, 100)

ANCHOR_RIGHT_X == Q(70, 100)

ANCHOR_Y == Q(45, 100)

YAW_WIDTH_FACTOR == Q(40, 100)

YAW_HEIGHT_FACTOR == Q(12, 100)

anchorSpan(glassesImg) ==
  QMul(QSub(ANCHOR_RIGHT_X, ANCHOR_LEFT_X), QInt(glassesImg.width))

\* baseScale with the multiplier added to the ratio instead of scaling it.
baseScaleOffset(eyeDistance, span, scaleMultiplier) ==
  QAdd(QDiv(eyeDistance, span), QSub(scaleMultiplier, QInt(1)))

baseScale(eyeDistance, span, scaleMultiplier) ==
  QMul(QDiv(eyeDistance, span), scaleMultiplier)

lWidthScale(yaw) == QAdd(QInt(1), QMul(yaw, YAW_WIDTH_FACTOR))

\* rWidthScale growing with yaw like the left half's.
rWidthScaleSameSign(yaw) == QAdd(QInt(1), QMul(yaw, YAW_WIDTH_FACTOR))

rWidthScale(yaw) == QSub(QInt(1), QMul(yaw, YAW_WIDTH_FACTOR))

\* drawGlasses(ctx, halves, transform, glassesImg, scaleMultiplier,
\* verticalOffset): the values it computes and the calls it makes on ctx.
\* eyeDistance, center and verticalOffset are pixels, roll, yaw and
\* scaleMultiplier hundredths.
drawGlasses(transform, glassesImg, scaleMultiplier, verticalOffset) ==
  LET yaw      == Q(transform.yaw, 100)
      span     == anchorSpan(glassesImg)
      scale    == baseScale(QInt(transform.eyeDistance), span,
                            Q(scaleMultiplier, 100))
      glassesW == QMul(QInt(glassesImg.width), scale)
      glassesH == QMul(QInt(glassesImg.height), scale)
      halfW    == QDiv(glassesW, QInt(2))
      lHeightScale == QAdd(QInt(1), QMul(yaw, YAW_HEIGHT_FACTOR))
      rHeightScale == QSub(QInt(1), QMul(yaw, YAW_HEIGHT_FACTOR))
      anchorOffsetY == QMul(QSub(ANCHOR_Y, Q(1, 2)), glassesH)
      lw == QMul(halfW, lWidthScale(yaw))
      lh == QMul(glassesH, lHeightScale)
      rw == QMul(halfW, rWidthScale(yaw))
      rh == QMul(glassesH, rHeightScale)
  IN  [anchorSpan |-> span,
       baseScale |-> scale,
       glassesW |-> glassesW,
       glassesH |-> glassesH,
       translate |-> [x |-> transform.center.x,
                      y |-> transform.center.y + verticalOffset],
       rotate |-> transform.roll,
       left |-> [dx |-> QSub(QInt(0), lw),
                 dy |-> QAdd(QDiv(QSub(QInt(0), lh), QInt(2)), anchorOffsetY),
                 dw |-> lw, dh |-> lh],
       right |-> [dx |-> QInt(0),
                  dy |-> QAdd(QDiv(QSub(QInt(0), rh), QInt(2)), anchorOffsetY),
                  dw |-> rw, dh |-> rh]]

\* The poses, images and settings drawGlasses is applied to.
DrawTransforms ==
  { [center |-> [x |-> 320, y |-> 240], eyeDistance |-> e, roll |-> 0,
     yaw |-> y] : e \in {40, 80, 100}, y \in {-50, 0, 50, 100} }

GlassesImages == { [width |-> 100, height |-> 40], [width |-> 250, height |-> 100] }

ScaleMultipliers == {80, 100, 130}

VerticalOffsets == {-40, 0}

DrawInit ==
  /\ Idle
  /\ EditorIdle
  /\ arg \in [transform : DrawTransforms, glassesImg : GlassesImages,
              scaleMultiplier : ScaleMultipliers,
              verticalOffset : VerticalOffsets]
  /\ ret = None

drawGlassesCall ==
  /\ ret = None
  /\ ret' = drawGlasses(arg.transform, arg.glassesImg, arg.scaleMultiplier,
                        arg.verticalOffset)
  /\ UNCHANGED <<arg, smooth, lastRawTransform, pageVars>>

DrawSpec == DrawInit /\ [][drawGlassesCall]_vars

(* ------------------------ render.js: splitGlassesImage ------------------ *)

\* Math.floor(n / 2), for whole n.
MathFloorHalf(n) == n \div 2

\* Math.ceil(n / 2), for whole n.
MathCeilHalf(n) == -((-n) \div 2)

\* The two offscreen canvases: the size of each and the rectangle of the
\* image drawn into it (source x `sx`, source width `sw`, full height).
splitGlassesImage(img) ==
  LET halfW  == MathCeilHalf(img.width)
      rightW == img.width - halfW
  IN  [left  |-> [width |-> halfW, height |-> img.height,
                  sx |-> 0, sw |-> halfW, sh |-> img.height],
       right |-> [width |-> rightW, height |-> img.height,
                  sx |-> halfW, sw |-> rightW, sh |-> img.height]]

\* The images splitGlassesImage is applied to.
SplitImages == [width : 0..MaxWidth, height : {1, 40}]

SplitInit ==
  /\ Idle
  /\ EditorIdle
  /\ arg \in [img : SplitImages]
  /\ ret = None

splitGlassesImageCall ==
  /\ ret = None
  /\ ret' = splitGlassesImage(arg.img)
  /\ UNCHANGED <<arg, smooth, lastRawTransform, pageVars>>

SplitSpec == SplitInit /\ [][splitGlassesImageCall]_vars

(* ------------------------ main.js: loadGlassesAssets -------------------- *)

\* Here glassesAssets is the array itself, arg is what the network holds for
\* each URL, and ret is the position of loadGlassesAssets: its loop index i
\* and the promise it awaits.

FALLBACK_STYLES == <<"classic", "round", "cateye">>

\* The event img.onerror rejects with.
LoadError == [kind |-> "error"]

\* What a URL yields: an error, or an image of some size.
Loads ==
  {LoadError} \cup
  { [kind |-> "image", width |-> sz[1], height |-> sz[2], style |-> "file"] :
      sz \in {<<100, 19>>, <<19, 100>>, <<20, 20>>, <<300, 120>>} }

\* generateFallbackGlasses(style): a canvas of the default size.
generateFallbackGlasses(style) ==
  [kind |-> "canvas", width |-> 400, height |-> 160, style |-> style]

\* canvasToImage(cvs): an image holding the pixels of the canvas.
canvasToImage(cvs) == [cvs EXCEPT !.kind = "image"]

\* The size test looking at the width only.
tooSmallWidthOnly(img) == img.width < 20

\* if (img.width < 20 || img.height < 20) throw
tooSmall(img) == img.width < 20 \/ img.height < 20

\* The number of images loaded: one when CONFIG.pngUrl is set.
Slots(a) == IF a.pngUrl # None THEN 1 ELSE NumGlasses

\* What loadImage settles with for slot i (from 0), and the style of the
\* fallback of that slot.
Source(a, i) == IF a.pngUrl # None THEN a.pngUrl ELSE a.urls[i + 1]

Style(a, i) == IF a.pngUrl # None THEN "classic" ELSE FALLBACK_STYLES[i + 1]

\* glassesAssets.push({ img, halves: splitGlassesImage(img) }) and the next
\* turn of the loop, up to its await.
pushAsset(img) ==
  /\ glassesAssets' =
       Append(glassesAssets, [img |-> img, halves |-> splitGlassesImage(img)])
  /\ ret' = [i |-> ret.i + 1,
             awaiting |-> IF ret.i + 1 < Slots(arg) THEN "loadImage"
                          ELSE "none"]

besidesAssets ==
  <<sessionVars, trackVars, detectVars, currentFrameIndex, detector, now,
    canvas, modelReady, btnStartDisabled, editorVars>>

\* init() has called loadGlassesAssets, which awaits its first loadImage.
AssetInit ==
  /\ PageIdle
  /\ EditorIdle
  /\ glassesAssets = <<>>
  /\ arg \in [pngUrl : Loads \cup {None}, urls : [1..NumGlasses -> Loads]]
  /\ ret = [i |-> 0, awaiting |-> "loadImage"]

\* img.onload: the image is kept unless it is too small.
loadImageResolves ==
  /\ ret.awaiting = "loadImage"
  /\ Source(arg, ret.i) # LoadError
  /\ IF tooSmall(Source(arg, ret.i))
       THEN /\ ret' = [ret EXCEPT !.awaiting = "canvasToImage"]
            /\ UNCHANGED glassesAssets
       ELSE pushAsset(Source(arg, ret.i))
  /\ UNCHANGED <<arg, besidesAssets>>

\* img.onerror: the catch block asks for the fallback.
loadImageRejects ==
  /\ ret.awaiting = "loadImage"
  /\ Source(arg, ret.i) = LoadError
  /\ ret' = [ret EXCEPT !.awaiting = "canvasToImage"]
  /\ UNCHANGED <<arg, glassesAssets, besidesAssets>>

\* The image made from the fallback canvas has loaded.
canvasToImageResolves ==
  /\ ret.awaiting = "canvasToImage"
  /\ pushAsset(canvasToImage(generateFallbackGlasses(Style(arg, ret.i))))
  /\ UNCHANGED <<arg, besidesAssets>>

AssetNext == loadImageResolves \/ loadImageRejects \/ canvasToImageResolves

\* The browser settles every image it was asked to load.
AssetSpec ==
  /\ AssetInit
  /\ [][AssetNext]_vars
  /\ WF_vars(loadImageResolves)
  /\ WF_vars(loadImageRejects)
  /\ WF_vars(canvasToImageResolves)

(* -------------------- face.js: the diagnostic counters ------------------- *)

\* Here ret is the module state of face.js besides the detector: diag and
\* lastVideoTime; arg is the video's currentTime; pending holds the detector
\* invocations that have not returned.

besidesDiag ==
  <<running, stream, btnStopDisabled, frameCount, awaitingMedia, awaitingPlay,
    rafPending, freshSession, trackVars, detecting, request, lastResult,
    currentFrameIndex, glassesAssets, now, canvas, modelReady,
    btnStartDisabled, editorVars>>

DiagInit ==
  /\ Idle
  /\ EditorIdle
  /\ arg = [currentTime |-> 0]
  /\ ret = [diag |-> [attempts |-> 0, successes |-> 0, errors |-> 0,
                      lastError |-> ""],
            lastVideoTime |-> -1]

\* The video element gets data for its current position.
videoCanPlay ==
  /\ video # "playing"
  /\ video' = "playing"
  /\ UNCHANGED <<arg, ret, detector, pending, besidesDiag>>

\* The video shows its next frame.
videoTimeUpdate ==
  /\ video = "playing"
  /\ arg.currentTime < MaxTime
  /\ arg' = [arg EXCEPT !.currentTime = @ + 1]
  /\ UNCHANGED <<ret, video, detector, pending, besidesDiag>>

\* detectFace counting the attempt before its early returns.
detectFaceCallCountsEarly ==
  /\ ret.diag.attempts < MaxAttempts
  /\ IF detector # "ready"
       THEN /\ ret' = [ret EXCEPT !.diag.lastError = "no detector",
                                  !.diag.attempts = @ + 1]
            /\ UNCHANGED pending
       ELSE IF video # "playing"
       THEN /\ ret' = [ret EXCEPT !.diag.lastError = "video not ready",
                                  !.diag.attempts = @ + 1]
            /\ UNCHANGED pending
       ELSE IF arg.currentTime = ret.lastVideoTime
       THEN /\ ret' = [ret EXCEPT !.diag.lastError = "duplicate frame",
                                  !.diag.attempts = @ + 1]
            /\ UNCHANGED pending
       ELSE /\ ret' = [ret EXCEPT !.lastVideoTime = arg.currentTime,
                                  !.diag.attempts = @ + 1]
            /\ pending' = Append(pending, [early |-> "detect"])
  /\ UNCHANGED <<arg, video, detector, besidesDiag>>

\* detectFace(video) up to the invocation of the detector: the three early
\* returns, then lastVideoTime, diag.attempts++ and the invocation.
detectFaceCall ==
  /\ IF detector # "ready"
       THEN /\ ret' = [ret EXCEPT !.diag.lastError = "no detector"]
            /\ UNCHANGED pending
       ELSE IF video # "playing"
       THEN /\ ret' = [ret EXCEPT !.diag.lastError = "video not ready"]
            /\ UNCHANGED pending
       ELSE IF arg.currentTime = ret.lastVideoTime
       THEN /\ ret' = [ret EXCEPT !.diag.lastError = "duplicate frame"]
            /\ UNCHANGED pending
       ELSE /\ ret.diag.attempts < MaxAttempts
            /\ ret' = [ret EXCEPT !.lastVideoTime = arg.currentTime,
                                  !.diag.attempts = @ + 1]
            /\ pending' = Append(pending, [early |-> "detect"])
  /\ UNCHANGED <<arg, video, detector, besidesDiag>>

\* The detector returns or throws: the rest of detectFace.
detectFaceSettles ==
  /\ \E i \in 1..Len(pending) :
       pending' = SubSeq(pending, 1, i - 1) \o SubSeq(pending, i + 1, Len(pending))
  /\ \E outcome \in {"face", "noFace", "detectorError"} :
       ret' = CASE outcome = "face" ->
                     [ret EXCEPT !.diag.successes = @ + 1]
                [] outcome = "noFace" ->
                     [ret EXCEPT !.diag.lastError = "no face in frame"]
                [] OTHER ->
                     [ret EXCEPT !.diag.errors = @ + 1,
                                 !.diag.lastError = "detection error"]
  /\ UNCHANGED <<arg, video, detector, besidesDiag>>

DiagNext ==
  \/ initFaceDetector
  \/ videoCanPlay
  \/ videoTimeUpdate
  \/ detectFaceCall
  \/ detectFaceSettles

DiagSpec == DiagInit /\ [][DiagNext]_vars

(* ------------------------------- editor.js ------------------------------ *)

\* An image is its size and what is known of its pixels: how many of them
\* are transparent, whether the background removal produced it, and whether
\* it was drawn from image data of another size (`garbled`).  The eraser
\* takes the pixels column by column from the right edge.

\* The images the user uploads.
Files == { [width |-> 2, height |-> 1], [width |-> 4, height |-> 1] }

\* The tools of the tool buttons.
Tools == {"eraser", "restore", "magic"}

\* The bitmap of an uploaded file drawn on the work canvas.
Picture(file) ==
  [width |-> file.width, height |-> file.height, erased |-> 0,
   bgRemoved |-> FALSE, garbled |-> FALSE]

Pixels(img) == img.width * img.height

\* workCtx.putImageData(img, 0, 0), and drawImage of a bitmap at (0, 0): the
\* canvas keeps its size.
putImageData(cvs, img) ==
  IF img.width = cvs.width /\ img.height = cvs.height
    THEN img
    ELSE [width |-> cvs.width, height |-> cvs.height,
          erased |-> MathMin(img.erased, Pixels(cvs)),
          bgRemoved |-> img.bgRemoved, garbled |-> TRUE]

\* saveHistory without the limit of MAX_HISTORY.
saveHistoryUnbounded(img) ==
  /\ history' = Append(SubSeq(history, 1, histIndex + 1), img)
  /\ histIndex' = Len(history') - 1

\* saveHistory without its splice: the forward states stay.
saveHistoryKeepsForward(img) ==
  /\ LET pushed == Append(history, img)
     IN  history' = IF Len(pushed) > MAX_HISTORY THEN Tail(pushed) ELSE pushed
  /\ histIndex' = Len(history') - 1

\* saveHistory() with `img` on the work canvas: the forward states are
\* dropped, the snapshot is pushed, the oldest one is shifted out when the
\* limit is passed, and histIndex points at the last one.
saveHistory(img) ==
  /\ LET pushed == Append(SubSeq(history, 1, histIndex + 1), img)
     IN  history' = IF Len(pushed) > MAX_HISTORY THEN Tail(pushed) ELSE pushed
  /\ histIndex' = Len(history') - 1

\* updateButtons() in a handler that leaves imageLoaded alone: the AI-remove
\* button is enabled exactly when an image is loaded (the undo and redo
\* buttons follow histIndex and are not kept: the keyboard reaches undo and
\* redo anyway).
updateButtons == btnAutoRemoveDisabled' = ~imageLoaded

\* Everything of the try-on page: the editor is a page of its own.
tryOnVars == <<sessionVars, detectVars, trackVars, currentFrameIndex, detector,
               glassesAssets, now, canvas, modelReady, btnStartDisabled,
               callVars>>

\* A file is dropped or chosen: loadImageFile runs up to its await of
\* createImageBitmap.
loadImageFile ==
  /\ Cardinality(loading) < MaxLoading
  /\ \E file \in Files \ loading : loading' = loading \cup {file}
  /\ UNCHANGED <<workCanvas, originalImageData, history, histIndex,
                 imageLoaded, tool, isPanning, btnAutoRemoveDisabled, removing,
                 used, tryOnVars>>

\* loadImageFile without its reset of the history: the loaded picture is
\* saved on top of the snapshots of the image before.
loadImageFileDecodedKeepsHistory ==
  \E file \in loading :
    /\ loading' = loading \ {file}
    /\ workCanvas' = Picture(file)
    /\ originalImageData' = workCanvas'
    /\ saveHistory(workCanvas')
    /\ imageLoaded' = TRUE
    /\ btnAutoRemoveDisabled' = FALSE
    /\ UNCHANGED <<tool, isPanning, removing, used, tryOnVars>>

\* createImageBitmap resolves: the rest of loadImageFile.
loadImageFileDecoded ==
  \E file \in loading :
    /\ loading' = loading \ {file}
    /\ workCanvas' = Picture(file)
    /\ originalImageData' = workCanvas'
    /\ history' = <<workCanvas'>>
    /\ histIndex' = 0
    /\ imageLoaded' = TRUE
    /\ btnAutoRemoveDisabled' = FALSE
    /\ UNCHANGED <<tool, isPanning, removing, used, tryOnVars>>

\* createImageBitmap rejects: loadImageFile ends there.
loadImageFileFails ==
  /\ \E file \in loading : loading' = loading \ {file}
  /\ UNCHANGED <<workCanvas, originalImageData, history, histIndex,
                 imageLoaded, tool, isPanning, btnAutoRemoveDisabled, removing,
                 used, tryOnVars>>

\* Click on the AI-remove button: autoRemoveBg runs up to its first await,
\* with a copy of the work canvas as the blob.
autoRemoveBg ==
  /\ ~btnAutoRemoveDisabled
  /\ imageLoaded
  /\ used.removals < MaxRemovals
  /\ used' = [used EXCEPT !.removals = @ + 1]
  /\ btnAutoRemoveDisabled' = TRUE
  /\ removing' = Append(removing, workCanvas)
  /\ UNCHANGED <<workCanvas, originalImageData, history, histIndex,
                 imageLoaded, tool, isPanning, loading, tryOnVars>>

\* removeBackground and createImageBitmap resolve: the result is drawn on
\* the work canvas and saved.
autoRemoveBgResult ==
  \E i \in 1..Len(removing) :
    /\ removing' = SubSeq(removing, 1, i - 1) \o SubSeq(removing, i + 1, Len(removing))
    /\ workCanvas' = putImageData(workCanvas, [removing[i] EXCEPT !.bgRemoved = TRUE])
    /\ saveHistory(workCanvas')
    /\ btnAutoRemoveDisabled' = FALSE
    /\ UNCHANGED <<originalImageData, imageLoaded, tool, isPanning, loading,
                   used, tryOnVars>>

\* One of the awaits of autoRemoveBg rejects: the catch and the finally.
autoRemoveBgFails ==
  \E i \in 1..Len(removing) :
    /\ removing' = SubSeq(removing, 1, i - 1) \o SubSeq(removing, i + 1, Len(removing))
    /\ btnAutoRemoveDisabled' = FALSE
    /\ UNCHANGED <<workCanvas, originalImageData, history, histIndex,
                   imageLoaded, tool, isPanning, loading, used, tryOnVars>>

\* Click on a tool button.
setTool ==
  /\ \E t \in Tools : t # tool.active /\ tool' = [tool EXCEPT !.active = t]
  /\ UNCHANGED <<workCanvas, originalImageData, history, histIndex,
                 imageLoaded, isPanning, btnAutoRemoveDisabled, loading,
                 removing, used, tryOnVars>>

\* eraseCircle: one more pixel is made transparent while an opaque one is
\* left.
eraseCircle(img) == [img EXCEPT !.erased = MathMin(@ + 1, Pixels(img))]

\* restoreCircle: one pixel is copied back from originalImageData.
restoreCircle(img) ==
  IF originalImageData = None THEN img
  ELSE [img EXCEPT !.erased = MathMax(@ - 1, 0)]

\* applyBrush with the active tool.
applyBrush(img) ==
  IF tool.active = "eraser" THEN eraseCircle(img)
  ELSE IF tool.active = "restore" THEN restoreCircle(img)
  ELSE img

\* mousedown with the middle button, or with Alt and the left button: a pan
\* gesture starts.
mousedownPan ==
  /\ ~isPanning
  /\ isPanning' = TRUE
  /\ UNCHANGED <<workCanvas, originalImageData, history, histIndex,
                 imageLoaded, tool, btnAutoRemoveDisabled, loading, removing,
                 used, tryOnVars>>

\* mousedown with the left button and the magic tool: magicErase on an
\* opaque pixel erases the region of its colour, here all that is left.
magicErase ==
  /\ imageLoaded
  /\ tool.active = "magic"
  /\ workCanvas.erased < Pixels(workCanvas)
  /\ workCanvas' = [workCanvas EXCEPT !.erased = Pixels(workCanvas)]
  /\ saveHistory(workCanvas')
  /\ updateButtons
  /\ UNCHANGED <<originalImageData, imageLoaded, tool, isPanning, loading,
                 removing, used, tryOnVars>>

\* The mousedown that starts a stroke saving the canvas as well.
mousedownBrushSaves ==
  /\ imageLoaded
  /\ tool.active # "magic"
  /\ ~tool.isDrawing
  /\ tool.active = "restore" => used.restores < MaxRestores
  /\ used' = IF tool.active = "restore"
               THEN [used EXCEPT !.restores = @ + 1] ELSE used
  /\ tool' = [tool EXCEPT !.isDrawing = TRUE]
  /\ workCanvas' = applyBrush(workCanvas)
  /\ saveHistory(workCanvas')
  /\ updateButtons
  /\ UNCHANGED <<originalImageData, imageLoaded, isPanning, loading, removing,
                 tryOnVars>>

\* mousedown with the left button and a brush tool: a stroke starts.
mousedownBrush ==
  /\ imageLoaded
  /\ tool.active # "magic"
  /\ ~tool.isDrawing
  /\ tool.active = "restore" => used.restores < MaxRestores
  /\ used' = IF tool.active = "restore"
               THEN [used EXCEPT !.restores = @ + 1] ELSE used
  /\ tool' = [tool EXCEPT !.isDrawing = TRUE]
  /\ workCanvas' = applyBrush(workCanvas)
  /\ UNCHANGED <<originalImageData, history, histIndex, imageLoaded,
                 isPanning, btnAutoRemoveDisabled, loading, removing,
                 tryOnVars>>

\* mousemove during a stroke (a pan gesture takes precedence): the brush is
\* applied along the path.
mousemove ==
  /\ ~isPanning
  /\ tool.isDrawing
  /\ workCanvas' = applyBrush(workCanvas)
  /\ workCanvas' # workCanvas
  /\ UNCHANGED <<originalImageData, history, histIndex, imageLoaded, tool,
                 isPanning, btnAutoRemoveDisabled, loading, removing, used,
                 tryOnVars>>

\* mouseup or mouseleave: a pan gesture ends, a stroke ends and is saved.
endDraw ==
  /\ isPanning \/ tool.isDrawing
  /\ isPanning' = FALSE
  /\ IF tool.isDrawing
       THEN /\ tool' = [tool EXCEPT !.isDrawing = FALSE]
            /\ saveHistory(workCanvas)
            /\ updateButtons
       ELSE UNCHANGED <<tool, history, histIndex, btnAutoRemoveDisabled>>
  /\ UNCHANGED <<workCanvas, originalImageData, imageLoaded, loading,
                 removing, used, tryOnVars>>

\* The width autoCrop keeps: the columns with content plus the padding of
\* one pixel on each side, within the canvas.
cropWidth(img) ==
  MathMin(img.width, (img.width - (img.erased \div img.height)) + 2)

\* Click on Auto-crop with content on the canvas (with none, autoCrop only
\* alerts).
autoCrop ==
  /\ imageLoaded
  /\ used.crops < MaxCrops
  /\ workCanvas.erased < Pixels(workCanvas)
  /\ used' = [used EXCEPT !.crops = @ + 1]
  /\ workCanvas' =
       [workCanvas EXCEPT
          !.width = cropWidth(workCanvas),
          !.erased = @ - (workCanvas.width - cropWidth(workCanvas))
                           * workCanvas.height]
  /\ originalImageData' = None
  /\ saveHistory(workCanvas')
  /\ updateButtons
  /\ UNCHANGED <<imageLoaded, tool, isPanning, loading, removing, tryOnVars>>

\* The editor state undo and redo work on.
Shown == [history |-> history, histIndex |-> histIndex, workCanvas |-> workCanvas]

\* undo() restoring the snapshot it leaves instead of the one it moves to.
undoFromStale(s) ==
  IF s.histIndex <= 0 THEN s
  ELSE [s EXCEPT !.histIndex = @ - 1,
                 !.workCanvas = putImageData(@, s.history[s.histIndex + 1])]

\* undo() applied to s: nothing at the first snapshot, else histIndex-- and
\* putImageData(history[histIndex], 0, 0).
undoFrom(s) ==
  IF s.histIndex <= 0 THEN s
  ELSE [s EXCEPT !.histIndex = @ - 1,
                 !.workCanvas = putImageData(@, s.history[s.histIndex])]

\* redo() applied to s: nothing at the last snapshot, else histIndex++ and
\* putImageData(history[histIndex], 0, 0).
redoFrom(s) ==
  IF s.histIndex >= Len(s.history) - 1 THEN s
  ELSE [s EXCEPT !.histIndex = @ + 1,
                 !.workCanvas = putImageData(@, s.history[s.histIndex + 2])]

\* Ctrl+Z or the undo button, where undo() does not return at once.
undo ==
  /\ histIndex > 0
  /\ histIndex' = undoFrom(Shown).histIndex
  /\ workCanvas' = undoFrom(Shown).workCanvas
  /\ history' = undoFrom(Shown).history
  /\ updateButtons
  /\ UNCHANGED <<originalImageData, imageLoaded, tool, isPanning, loading,
                 removing, used, tryOnVars>>

\* Ctrl+Y or the redo button, where redo() does not return at once.
redo ==
  /\ histIndex < Len(history) - 1
  /\ histIndex' = redoFrom(Shown).histIndex
  /\ workCanvas' = redoFrom(Shown).workCanvas
  /\ history' = redoFrom(Shown).history
  /\ updateButtons
  /\ UNCHANGED <<originalImageData, imageLoaded, tool, isPanning, loading,
                 removing, used, tryOnVars>>

\* The edits of a session are explored while the history holds fewer than
\* MaxSnapshots snapshots.
Room == Len(history) < MaxSnapshots

EditorNext ==
  \/ loadImageFile
  \/ loadImageFileDecoded
  \/ loadImageFileFails
  \/ Room /\ autoRemoveBg
  \/ autoRemoveBgResult
  \/ autoRemoveBgFails
  \/ setTool
  \/ mousedownPan
  \/ Room /\ magicErase
  \/ Room /\ mousedownBrush
  \/ mousemove
  \/ endDraw
  \/ Room /\ autoCrop
  \/ undo
  \/ redo

EditorSpec == Init /\ [][EditorNext]_vars

\* The history on its own: loads, eraser strokes, undo and redo, with no
\* limit on their number.  Each stroke is completed before the next load,
\* undo or redo is taken.
HistoryNext ==
  \/ loadImageFile
  \/ ~tool.isDrawing /\ loadImageFileDecoded
  \/ loadImageFileFails
  \/ mousedownBrush
  \/ mousemove
  \/ endDraw
  \/ ~tool.isDrawing /\ undo
  \/ ~tool.isDrawing /\ redo

HistorySpec == Init /\ [][HistoryNext]_vars

(* ------------------------------ step kinds ------------------------------ *)

\* A render tick of a running session (only renderLoop increments frameCount).
Tick == frameCount' = frameCount + 1

\* A tick that calls runDetection.
TickRequests == Tick /\ frameCount' % detectionInterval = 0

\* A pending detectFace call settles.
Settles == Len(pending') = Len(pending) - 1

\* ... with a face.
SettlesWithFace == Settles /\ lastResult'.outcome = "face"

\* The pose applySmoothing returns for `raw` on top of state.smooth.
Smoothed(raw) ==
  buildSmoothed(smoothAfter(smooth, raw, smoothingFactor), raw.keypoints)

(* -------------------------------- claims -------------------------------- *)

\* C1: in every reachable state at most one detectFace call started by
\* runDetection is outstanding.
C1_AtMostOneInFlight == Len(pending) <= 1

\* A tick asked for a detection while one was outstanding, and one is.
C1_Witness == Len(pending) = 1 /\ request = "dropped" /\ running

\* C2: a runDetection request made while a detection is outstanding is
\* dropped: the tick changes neither the pending call, the flag, the tracking
\* state nor the last result, exactly one call remains outstanding, and a
\* settling call leaves none behind.
C2_DroppedNotQueued ==
  /\ [][(TickRequests /\ Len(pending) > 0) =>
          /\ pending' = pending
          /\ Len(pending') = 1
          /\ detecting' = detecting
          /\ lastResult' = lastResult
          /\ UNCHANGED trackVars]_vars
  /\ [][Settles => (pending' = <<>> /\ ~detecting')]_vars

\* A request was dropped and the one detection has since settled.
C2_Witness ==
  request = "dropped" /\ pending = <<>> /\ ~detecting
    /\ lastResult.outcome # "none"

\* C3: a started detection is never cancelled: when it settles with a face,
\* the result is smoothed into state.smooth, becomes the last-known pose and
\* stamps lastFaceTime, whether or not the session is still running.
C3_AppliedWhenSettled ==
  [][SettlesWithFace =>
       /\ smooth' = smoothAfter(smooth, lastResult'.raw, smoothingFactor)
       /\ lastRawTransform' = Smoothed(lastResult'.raw)
       /\ lastFaceTime' = now]_vars

\* A result was applied after stopCamera had reset the tracking state.
C3_Witness ==
  ~running /\ ~canvas.video /\ lastRawTransform # None /\ smooth # None
    /\ lastResult.outcome = "face"

\* C4: the first detection applied after a start or restart seeds the
\* smoothing state: the pose it yields is its raw pose, not a blend.
C4_SeedAfterRestart ==
  [][(SettlesWithFace /\ freshSession) =>
       lastRawTransform' = lastResult'.raw]_vars

\* C5: while an in-flight detection does not settle, no detection is started
\* (the flag stays up across ticks, stopCamera and startCamera) and
\* lastFaceTime stands; ticks of a running session still draw the video frame
\* and schedule the next tick, and draw no overlay once the grace period is
\* over.
C5_HungDetectorBlocks ==
  [][(Len(pending) >= 1 /\ ~Settles) =>
       /\ pending' = pending
       /\ detecting'
       /\ lastFaceTime' = lastFaceTime
       /\ (Tick =>
             /\ canvas'.video
             /\ rafPending' >= 1
             /\ (now - lastFaceTime >= faceTimeoutMs =>
                   canvas'.overlay = None))]_vars

\* A detection started before the latest start is still outstanding, the
\* first request of the new session was dropped, and the tick drew the video
\* without the overlay, the pose being older than the grace period.
C5_Witness ==
  /\ Len(pending) = 1 /\ running /\ freshSession
  /\ request = "dropped" /\ frameCount = detectionInterval
  /\ lastRawTransform # None
  /\ canvas.video /\ canvas.overlay = None
  /\ canvas.at - lastFaceTime >= faceTimeoutMs

\* C6: on a render tick with a last-known pose present the overlay is drawn
\* if and only if now - lastFaceTime < 500.
C6_GraceBoundary ==
  [][(Tick /\ lastRawTransform # None) =>
       ((canvas'.overlay # None) <=> (now - lastFaceTime < faceTimeoutMs))]_vars

\* A pose stamped at 0 is present and the tick at 500 drew no overlay.
C6_Witness ==
  /\ lastRawTransform # None /\ lastFaceTime = 0
  /\ canvas.video /\ canvas.overlay = None /\ canvas.at = faceTimeoutMs
  /\ now = faceTimeoutMs

\* C7 as stated: the draw decision of a tick is a function of
\* now - lastFaceTime < faceTimeoutMs alone.
C7_DecisionByDeltaOnly ==
  [][Tick =>
       ((canvas'.overlay # None) <=> (now - lastFaceTime < faceTimeoutMs))]_vars

\* C7, amended: the draw decision of a tick is a function of the presence of
\* a last-known pose and of now - lastFaceTime < faceTimeoutMs, and of
\* nothing stored by an earlier tick.
C7_DecisionDerived ==
  [][Tick =>
       ((canvas'.overlay # None) <=>
          (lastRawTransform # None /\ now - lastFaceTime < faceTimeoutMs))]_vars

\* A tick inside the grace period drew nothing, there being no pose, after an
\* earlier detection had found a face.
C7_Witness ==
  /\ running /\ canvas.video /\ canvas.overlay = None
  /\ lastRawTransform = None /\ lastResult.outcome = "face"
  /\ canvas.at = now /\ now - lastFaceTime < faceTimeoutMs

\* C8: a detection that settles with a face stamps lastFaceTime with the
\* time it settles at and replaces the last-known pose; one that settles with
\* no result, and a tick that starts no detection, leave lastFaceTime, the
\* last-known pose and the smoothing state as they are.
C8_DetectionEffects ==
  /\ [][Settles =>
          IF lastResult'.outcome = "face"
            THEN /\ lastFaceTime' = now
                 /\ lastRawTransform' = Smoothed(lastResult'.raw)
            ELSE UNCHANGED trackVars]_vars
  /\ [][(Tick /\ pending' = pending) => UNCHANGED trackVars]_vars

\* A detection settled without a face while a pose stamped earlier stands.
C8_Witness ==
  /\ lastResult.outcome \in {"noFace", "videoNotReady", "duplicateFrame",
                             "detectorError"}
  /\ lastRawTransform # None /\ smooth # None /\ lastFaceTime < now
  /\ pending = <<>>

\* C9: render ticks never modify the smoothing state, the last-known pose or
\* its timestamp, and an overlay they draw is drawn with exactly the
\* last-known pose.
C9_FrozenPose ==
  [][Tick =>
       /\ UNCHANGED trackVars
       /\ (canvas'.overlay # None => canvas'.overlay = lastRawTransform)]_vars

\* The latest detection found no face and the tick at 499 drew the pose
\* stamped at 0.
C9_Witness ==
  /\ lastResult.outcome = "noFace" /\ lastFaceTime = 0
  /\ canvas.at = faceTimeoutMs - 1
  /\ canvas.overlay # None /\ canvas.overlay = lastRawTransform

\* C10: a tick at or after lastFaceTime + 500 draws no overlay; lastFaceTime
\* moves only when a detection settles with a face; and until it moves, a
\* pose that is older than the grace period stays older.
C10_StaysHidden ==
  /\ [][(Tick /\ now - lastFaceTime >= faceTimeoutMs) =>
          canvas'.overlay = None]_vars
  /\ [][lastFaceTime' # lastFaceTime => SettlesWithFace]_vars
  /\ [][(now - lastFaceTime >= faceTimeoutMs /\ lastFaceTime' = lastFaceTime) =>
          now' - lastFaceTime' >= faceTimeoutMs]_vars

\* The session runs, the latest detection found no face, and the tick at 501
\* drew no overlay for a pose stamped at 0.
C10_Witness ==
  /\ running /\ lastRawTransform # None /\ lastFaceTime = 0
  /\ lastResult.outcome = "noFace"
  /\ canvas.video /\ canvas.overlay = None /\ canvas.at = faceTimeoutMs + 1

\* C11: the frame count is 0 when a session starts and a tick adds one to it;
\* a tick calls runDetection exactly when the new count is a multiple of
\* detectionInterval, any other tick leaves the flag and the pending call
\* alone, and of two consecutive ticks (detectionInterval = 2) at most one
\* makes a request.
C11_Throttle ==
  /\ [][rafPending' = rafPending + 1 => running' /\ frameCount' = 0]_vars
  /\ [][Tick => ((request' # "none") <=> (frameCount' % detectionInterval = 0))]_vars
  /\ [][(Tick /\ frameCount' % detectionInterval # 0) =>
          UNCHANGED <<detecting, pending>>]_vars
  /\ [][(Tick /\ request # "none") => request' = "none"]_vars

\* The second request of a session: its fourth tick.
C11_Witness ==
  running /\ frameCount = 2 * detectionInterval /\ request \in {"started", "dropped"}

C13_FailureKeepsLoop ==
  /\ [][(Settles /\ lastResult'.outcome # "face") =>
          /\ ~detecting'
          /\ UNCHANGED <<running, rafPending, frameCount, canvas, trackVars>>]_vars
  /\ [](running => rafPending >= 1)
  /\ [][(/\ Tick
          /\ lastResult.outcome # "face"
          /\ (lastRawTransform = None \/ now - lastFaceTime >= faceTimeoutMs)) =>
          (canvas'.video /\ canvas'.overlay = None /\ rafPending' >= 1)]_vars

\* extractFaceTransform threw in the first detection of a session and the
\* loop went on to the fourth tick, drawing no overlay.
C13_Witness ==
  /\ running /\ lastResult.outcome = "malformedFace" /\ ~detecting
  /\ frameCount = 2 * detectionInterval /\ request = "started"
  /\ canvas.video /\ canvas.overlay = None /\ rafPending >= 1

\* C14: once createDetector has failed, the detector stays failed (no
\* retry), modelReady stays false, and no detectFace call is started.
C14_InitFailureIsFinal ==
  /\ [](detector = "failed" => (~modelReady /\ ~detecting /\ pending = <<>>))
  /\ [][detector = "failed" => detector' = "failed"]_vars

\* The detector failed and the assets finished loading after it.
C14_Witness ==
  detector = "failed" /\ glassesAssets = NumGlasses /\ ~modelReady

\* A click on Stop: the only step that disables btnStop.
StopStep == btnStopDisabled' /\ ~btnStopDisabled

\* C15: when stopCamera returns, state.smooth and state.lastRawTransform are
\* null and state.running is false.
C15_StopResets ==
  [][StopStep => (smooth' = None /\ lastRawTransform' = None /\ ~running')]_vars

\* A session that had applied a face (after instant 0) was stopped.
C15_Witness ==
  /\ ~running /\ btnStopDisabled /\ lastFaceTime > 0
  /\ smooth = None /\ lastRawTransform = None /\ ~canvas.video

\* A call of applySmoothing on its own.
SmoothCall == arg'.calls = arg.calls + 1

\* C16: a call of applySmoothing with state.smooth empty returns a pose
\* whose center, eyeDistance, roll and yaw are those of the raw pose, and
\* stores the same values in state.smooth.
C16_SeedIsRaw ==
  [][(SmoothCall /\ smooth = None) =>
       /\ lastRawTransform'.center.x = ret.center.x
       /\ lastRawTransform'.center.y = ret.center.y
       /\ lastRawTransform'.eyeDistance = ret.eyeDistance
       /\ lastRawTransform'.roll = ret.roll
       /\ lastRawTransform'.yaw = ret.yaw
       /\ smooth'.centerX = ret.center.x
       /\ smooth'.centerY = ret.center.y
       /\ smooth'.eyeDistance = ret.eyeDistance
       /\ smooth'.roll = ret.roll
       /\ smooth'.yaw = ret.yaw]_vars

\* The first call, with any factor, on a tilted face turned fully right.
C16_Witness ==
  /\ arg.calls = 1 /\ ret # None /\ smooth # None
  /\ smooth.keypoints = arg.keypoints
  /\ ret.roll > 0 /\ ret.yaw = 100 /\ arg.factor < 100
  /\ lastRawTransform.yaw = 100 /\ lastRawTransform.roll = ret.roll

\* The smoothed scalars and the raw value each of them follows.
Scalars == {"centerX", "centerY", "eyeDistance", "roll", "yaw"}

RawScalar(raw, f) ==
  CASE f = "centerX" -> raw.center.x
    [] f = "centerY" -> raw.center.y
    [] OTHER -> raw[f]

Distance(u, v) == IF u >= v THEN u - v ELSE v - u

\* C17: with a factor a in (0, 1], a blending call of applySmoothing never
\* moves a smoothed scalar away from the raw value; the new distance is at
\* most (1 - a) times the old one plus the rounding of one grid unit, and it
\* is zero after a call with factor 1.
C17_Converges ==
  [][(SmoothCall /\ smooth # None /\ arg.factor > 0) =>
       \A f \in Scalars :
         LET d  == Distance(smooth[f], RawScalar(ret, f))
             d2 == Distance(smooth'[f], RawScalar(ret, f))
         IN  /\ d2 <= d
             /\ 100 * d2 <= (100 - arg.factor) * d + 99
             /\ (arg.factor = 100 => d2 = 0)]_vars

\* Seeded at yaw -1, then the same raw pose with yaw 1 fed twice at factor
\* 0.35: the distance went 2.00, 1.30, 0.85.
C17_Witness ==
  /\ arg.calls = 3 /\ arg.factor = smoothingFactor
  /\ ret # None /\ ret.yaw = 100 /\ smooth.yaw = 15

\* C18: the yaw extractFaceTransform returns is the estimate moved to the
\* nearest bound of [-1, 1] when it lies outside, and the estimate itself
\* otherwise; the smoothed yaw, after any calls of applySmoothing with a
\* factor in [0, 1], is within [-1, 1].
C18_YawInRange ==
  /\ ret # None =>
       LET y == yawEstimate(arg.keypoints)
       IN  ret.yaw = (IF y > 100 THEN 100 ELSE IF y < -100 THEN -100 ELSE y)
  /\ smooth # None =>
       /\ smooth.yaw \in -100..100
       /\ lastRawTransform.yaw \in -100..100

\* An estimate below -1 was clamped, after a smoothed yaw strictly inside.
C18_Witness ==
  /\ ret # None /\ yawEstimate(arg.keypoints) < -100 /\ ret.yaw = -100
  /\ smooth # None /\ arg.calls >= 2
  /\ smooth.yaw > -100 /\ smooth.yaw < 100 /\ smooth.yaw # 0

C20_ScaleLaw ==
  ret # None =>
    LET e == QInt(arg.transform.eyeDistance)
        m == Q(arg.scaleMultiplier, 100)
        doubled == drawGlasses(arg.transform, arg.glassesImg,
                               2 * arg.scaleMultiplier, arg.verticalOffset)
    IN  /\ ret.anchorSpan = Q(40 * arg.glassesImg.width, 100)
        /\ QMul(ret.baseScale, ret.anchorSpan) = QMul(e, m)
        /\ (e = QMul(QInt(2), ret.anchorSpan) /\ m = QInt(1)) =>
             ret.baseScale = QInt(2)
        /\ doubled.baseScale = QMul(QInt(2), ret.baseScale)
        /\ ret.glassesW = QMul(QInt(arg.glassesImg.width), ret.baseScale)

\* eyeDistance 80 on a 100 pixel wide image (anchorSpan 40), multiplier 1.
C20_Witness ==
  /\ ret # None /\ arg.scaleMultiplier = 100
  /\ arg.transform.eyeDistance = 80 /\ arg.glassesImg.width = 100
  /\ ret.anchorSpan = QInt(40) /\ ret.baseScale = QInt(2)

\* C21: drawGlasses draws the left half with width halfW * (1 + 0.40 * yaw)
\* and the right half with width halfW * (1 - 0.40 * yaw), which is 1.20 and
\* 0.80 of halfW at yaw = 0.5; the left half ends and the right half starts
\* at x = 0, the rotation origin; and at yaw = 0 both halves have the same
\* width, height and vertical position.
C21_YawAsymmetry ==
  ret # None =>
    LET yaw   == Q(arg.transform.yaw, 100)
        halfW == QDiv(ret.glassesW, QInt(2))
    IN  /\ ret.left.dw = QMul(halfW, QAdd(QInt(1), QMul(Q(40, 100), yaw)))
        /\ ret.right.dw = QMul(halfW, QSub(QInt(1), QMul(Q(40, 100), yaw)))
        /\ arg.transform.yaw = 50 =>
             /\ ret.left.dw = QMul(halfW, Q(120, 100))
             /\ ret.right.dw = QMul(halfW, Q(80, 100))
        /\ QAdd(ret.left.dx, ret.left.dw) = QInt(0)
        /\ ret.right.dx = QInt(0)
        /\ arg.transform.yaw = 0 =>
             /\ ret.left.dw = halfW /\ ret.right.dw = halfW
             /\ ret.left.dh = ret.right.dh
             /\ ret.left.dy = ret.right.dy

\* A half-turned face on the 100 pixel image at scale 2: halves of widths
\* 120 and 80.
C21_Witness ==
  /\ ret # None /\ arg.transform.yaw = 50 /\ ret.glassesW = QInt(200)
  /\ ret.left.dw = QInt(120) /\ ret.right.dw = QInt(80)
  /\ ret.left.dx = QInt(-120)

\* The step of endDraw that ends a stroke: the only save of HistorySpec
\* besides the one of a load.
StrokeSaved == tool.isDrawing /\ ~tool'.isDrawing

\* C22: the history never holds more than MAX_HISTORY (30) snapshots after
\* any sequence of loads, strokes, undo and redo, and a save made when it
\* holds MAX_HISTORY snapshots with the index on the last one discards the
\* oldest: the 29 newer ones move down and the canvas is appended.
C22_HistoryBounded ==
  [][ /\ Len(history') <= MAX_HISTORY
      /\ histIndex' <= MAX_HISTORY - 1
      /\ (StrokeSaved /\ Len(history) = MAX_HISTORY
                      /\ histIndex = MAX_HISTORY - 1)
           => history' = Append(Tail(history), workCanvas) ]_vars

\* A full history whose first snapshot is no longer the loaded picture: the
\* 31st save has discarded it.
C22_Witness ==
  /\ Len(history) = MAX_HISTORY
  /\ histIndex = MAX_HISTORY - 1
  /\ history[1].erased > 0

\* C23: on every call of applySmoothing after the seed, with the page's
\* smoothingFactor (0.35), each of centerX, centerY, eyeDistance, roll and
\* yaw becomes old + (raw - old) * 0.35 (rounded down to the grid), the
\* returned pose carries these values, and its keypoints are the raw
\* keypoints of this call, unsmoothed.
C23_BlendStep ==
  [][(SmoothCall /\ smooth # None /\ arg.factor = smoothingFactor) =>
       /\ \A f \in Scalars :
            smooth'[f] =
              smooth[f] + (((RawScalar(ret, f) - smooth[f]) * 35) \div 100)
       /\ lastRawTransform'.center = [x |-> smooth'.centerX, y |-> smooth'.centerY]
       /\ lastRawTransform'.eyeDistance = smooth'.eyeDistance
       /\ lastRawTransform'.roll = smooth'.roll
       /\ lastRawTransform'.yaw = smooth'.yaw
       /\ lastRawTransform'.keypoints = ret.keypoints
       /\ lastRawTransform'.keypoints = arg.keypoints]_vars

\* Seeded at yaw -1, then a different face with yaw 1 blended once at 0.35:
\* the smoothed yaw is -0.30 and the returned keypoints are the new face's.
C23_Witness ==
  /\ arg.calls = 2 /\ arg.factor = smoothingFactor
  /\ ret # None /\ ret.yaw = 100 /\ smooth.yaw = -30
  /\ lastRawTransform.yaw = -30
  /\ lastRawTransform.keypoints = arg.keypoints

\* C24: the base yaw of extractFaceTransform is (dLeft - dRight) /
\* (dLeft + dRight) when dLeft + dRight > 0 and 0 otherwise; the yaw returned
\* is that value (blended with the depth signal when both eyes have z)
\* clamped, so keypoints whose nose tip coincides with both face-edge points
\* give base yaw 0, and the yaw returned is always a number in [-1, 1].
C24_BaseYawGuarded ==
  ret # None =>
    LET noseTip == arg.keypoints.at[LM.NOSE_TIP]
        dLeft   == dist(noseTip, arg.keypoints.at[LM.LEFT_FACE_EDGE])
        dRight  == dist(noseTip, arg.keypoints.at[LM.RIGHT_FACE_EDGE])
        base    == IF dLeft + dRight > 0
                     THEN ((dLeft - dRight) * 100) \div (dLeft + dRight)
                     ELSE 0
        zYaw    == ((ret.rightEye.z - ret.leftEye.z) * 200)
                     \div MathMax(ret.eyeDistance, 2)
    IN  /\ baseYaw(arg.keypoints) = base
        /\ (noseTip.x = arg.keypoints.at[LM.LEFT_FACE_EDGE].x
              /\ noseTip.x = arg.keypoints.at[LM.RIGHT_FACE_EDGE].x
              /\ noseTip.y = arg.keypoints.at[LM.LEFT_FACE_EDGE].y
              /\ noseTip.y = arg.keypoints.at[LM.RIGHT_FACE_EDGE].y)
             => (dLeft + dRight = 0 /\ baseYaw(arg.keypoints) = 0)
        /\ ret.yaw = IF HasZ(ret.leftEye) /\ HasZ(ret.rightEye)
                       THEN clamp((base * 55 + zYaw * 45) \div 100, -100, 100)
                       ELSE clamp(base, -100, 100)
        /\ ret.yaw \in -100..100

\* Keypoints without z whose nose tip lies on both face-edge points: the
\* transform was extracted and its yaw is 0.
C24_Witness ==
  /\ ret # None
  /\ arg.keypoints \in CollapsedFaces
  /\ ~HasZ(ret.leftEye)
  /\ ret.yaw = 0
  /\ ret.eyeDistance > 0

\* The image columns a half was drawn from.
Columns(half) == { half.sx + i : i \in 0..(half.sw - 1) }

\* C25: the halves of splitGlassesImage partition the columns of the image:
\* the left one has width ceil(w / 2) and holds columns [0, ceil(w / 2)), the
\* right one has width w - ceil(w / 2) and holds the columns from ceil(w / 2)
\* on; the widths sum to w and no column is in both or in neither, for
\* every w >= 0.  Both have the height of the image.
C25_HalvesPartition ==
  ret # None =>
    LET w == arg.img.width
    IN  /\ 2 * ret.left.width \in {w, w + 1}
        /\ ret.left.sw = ret.left.width
        /\ Columns(ret.left) = 0..(ret.left.width - 1)
        /\ ret.right.width = w - ret.left.width
        /\ ret.right.sw = ret.right.width
        /\ Columns(ret.right) = ret.left.width..(w - 1)
        /\ ret.left.width + ret.right.width = w
        /\ Columns(ret.left) \cap Columns(ret.right) = {}
        /\ Columns(ret.left) \cup Columns(ret.right) = 0..(w - 1)
        /\ ret.left.height = arg.img.height
        /\ ret.right.height = arg.img.height

\* An image of odd width was split: the left half is one column wider.
C25_Witness ==
  /\ ret # None
  /\ arg.img.width = 21
  /\ ret.left.width = 11 /\ ret.right.width = 10
  /\ ret.right.sx = 11

\* The entry of slot k (from 1) is what the claim asks of it.
AssetAsClaimed(k) ==
  LET e   == glassesAssets[k]
      src == Source(arg, k - 1)
      bad == src = LoadError \/ src.width < 20 \/ src.height < 20
  IN  /\ e.img.kind = "image"
      /\ e.img.width >= 20 /\ e.img.height >= 20
      /\ bad => /\ e.img.style = Style(arg, k - 1)
                /\ e.img.width = 400 /\ e.img.height = 160
      /\ ~bad => e.img = src
      /\ e.halves = splitGlassesImage(e.img)
      /\ e.halves.left.width + e.halves.right.width = e.img.width
      /\ e.halves.left.height = e.img.height

\* C26: asset loading ends with one usable asset per slot: an image that
\* fails to load or whose width or height is below 20 px is replaced by the
\* generated fallback of its slot, every entry of glassesAssets has its
\* halves computed from the image finally chosen, and the loop comes to its
\* end with as many entries as slots.
C26_AssetsUsable ==
  /\ [](/\ Len(glassesAssets) <= Slots(arg)
        /\ \A k \in 1..Len(glassesAssets) : AssetAsClaimed(k))
  /\ <>[](ret.awaiting = "none" /\ Len(glassesAssets) = Slots(arg))

\* Loading has ended with three entries: a fallback for an image 19 px
\* high, the loaded image, and a fallback for a failed load.
C26_Witness ==
  /\ ret # None /\ arg # None /\ "urls" \in DOMAIN arg
  /\ arg.pngUrl = None
  /\ arg.urls[1] # LoadError /\ arg.urls[1].height = 19
  /\ arg.urls[2] # LoadError /\ arg.urls[2].width = 300
  /\ arg.urls[3] = LoadError
  /\ ret.awaiting = "none"
  /\ Len(glassesAssets) = 3
  /\ glassesAssets[1].img.style = "classic"
  /\ glassesAssets[2].img.style = "file"
  /\ glassesAssets[3].img.style = "cateye"
  /\ glassesAssets[3].halves.left.width = 200

\* C27: detecting is true exactly while a detectFace call started by
\* runDetection is outstanding (there is never more than one), and the step
\* in which the call settles clears it whatever the outcome: a face, a null
\* result, an exception of the detector, or an exception thrown while the
\* face is turned into a pose.
C27_FlagMirrorsCall ==
  [][ /\ detecting <=> Len(pending) = 1
      /\ detecting' <=> Len(pending') = 1
      /\ Len(pending') <= 1
      /\ Settles => (detecting /\ ~detecting' /\ pending' = <<>>)
      /\ (detecting' /\ ~detecting) => request' = "started" ]_vars

\* A call settled by an exception thrown after detectFace returned a face,
\* and the flag is clear, the session still running.
C27_Witness ==
  /\ running /\ ~detecting /\ pending = <<>>
  /\ lastResult.outcome = "malformedFace"
  /\ frameCount >= detectionInterval

\* C28: at most one render-loop chain is alive at any time: whatever the
\* Start and Stop clicks, at most one renderLoop callback is pending (so
\* that frameCount advances by one per display tick).
C28_OneChain == rafPending <= 1

\* C29: while state.running is false (after stopCamera, until the next
\* startCamera completes) a tick of the render loop draws nothing, counts no
\* frame and queues no further tick, no detection is started, and the
\* callbacks still queued run out.
C29_StoppedLoopEnds ==
  /\ [][(~running /\ ~running') =>
          /\ canvas' = canvas
          /\ frameCount' = frameCount
          /\ rafPending' <= rafPending
          /\ Len(pending') <= Len(pending)
          /\ (detecting' => detecting)]_vars
  /\ [][(~running /\ running') => btnStopDisabled /\ ~btnStopDisabled']_vars
  /\ (~running) ~> (running \/ rafPending = 0)

\* A session that drew frames was stopped and its queued tick has run: no
\* callback is left and the canvas stays cleared.
C29_Witness ==
  /\ ~running /\ btnStopDisabled /\ rafPending = 0
  /\ frameCount > 0 /\ ~canvas.video
  /\ awaitingMedia = 0 /\ awaitingPlay = 0

\* The early returns of detectFace, by the message each leaves.
EarlyReturns == {"no detector", "video not ready", "duplicate frame"}

\* C30: the counters of diag are consistent and monotonic: successes +
\* errors <= attempts at all times, no counter ever decreases, attempts
\* grows by one and only in a step that invokes the detector (detector
\* present, video ready, a frame not yet seen), and a call that returns
\* early for a missing detector, a video not ready or a duplicate frame
\* leaves all three counters as they were.
C30_DiagConsistent ==
  [][ LET d == ret.diag
          e == ret'.diag
      IN  /\ d.successes + d.errors <= d.attempts
          /\ e.successes + e.errors <= e.attempts
          /\ e.attempts >= d.attempts
          /\ e.successes >= d.successes
          /\ e.errors >= d.errors
          /\ e.attempts # d.attempts =>
                /\ e.attempts = d.attempts + 1
                /\ detector = "ready" /\ video = "playing"
                /\ arg.currentTime # ret.lastVideoTime
                /\ Len(pending') = Len(pending) + 1
          /\ (Len(pending') = Len(pending) /\ e.lastError \in EarlyReturns)
                => (e.attempts = d.attempts /\ e.successes = d.successes
                    /\ e.errors = d.errors) ]_vars

\* Three invocations, one with a face and one with an error, then a call
\* that returned early on a duplicate frame without counting.
C30_Witness ==
  /\ ret # None /\ "diag" \in DOMAIN ret
  /\ ret.diag.attempts = 3 /\ ret.diag.successes = 1 /\ ret.diag.errors = 1
  /\ pending = <<>>
  /\ ret.diag.lastError = "duplicate frame"

\* histIndex is -1 exactly when the history is empty, and an index into it
\* otherwise.
IndexInRange ==
  /\ histIndex = -1 <=> history = <<>>
  /\ histIndex \in -1..(Len(history) - 1)
  /\ history # <<>> => histIndex \in 0..(Len(history) - 1)

\* A step in which a pending load went away and the editor changed: the load
\* was decoded.  (A decoded load that changes nothing finds the history
\* already at one snapshot with histIndex 0.)
LoadStep ==
  /\ Cardinality(loading') < Cardinality(loading)
  /\ <<workCanvas, originalImageData, history, histIndex, imageLoaded>>'
       # <<workCanvas, originalImageData, history, histIndex, imageLoaded>>

\* C31: after any sequence of loads, edits, undo and redo histIndex is -1
\* exactly when the history is empty and otherwise 0 <= histIndex <=
\* history.length - 1; a load leaves exactly one snapshot, the loaded
\* picture, with histIndex 0; undo at index 0 and redo at the last index
\* change nothing.
C31_IndexInvariant ==
  [][ /\ IndexInRange
      /\ IndexInRange'
      /\ LoadStep => (history' = <<workCanvas'>> /\ histIndex' = 0
                       /\ Len(history') = 1)
      /\ histIndex' <= 0 => undoFrom(Shown') = Shown'
      /\ histIndex' >= Len(history') - 1 => redoFrom(Shown') = Shown'
      /\ (history' = history /\ histIndex' < histIndex) => histIndex > 0
      /\ (history' = history /\ histIndex' > histIndex)
           => histIndex < Len(history) - 1 ]_vars

\* An image was cropped and another one loaded since: the history was reset
\* to the loaded picture alone.
C31_Witness ==
  /\ imageLoaded /\ used.crops = 1
  /\ Len(history) = 1 /\ histIndex = 0
  /\ workCanvas = history[1] /\ workCanvas.erased = 0
  /\ originalImageData = workCanvas

\* A step that saved an edit: the history changed, or a stroke ended, and
\* no load was decoded.
EditSaved ==
  /\ history' # history \/ StrokeSaved
  /\ Cardinality(loading') = Cardinality(loading)

\* C32: a new edit discards the redo branch: the save keeps the snapshots
\* up to histIndex, drops every later one and appends the canvas, so right
\* after any edit histIndex = history.length - 1 and redo does nothing.
C32_RedoBranchDiscarded ==
  [][ EditSaved =>
        LET n == Len(history')
        IN  /\ n = histIndex + 2
            /\ SubSeq(history', 1, n - 1) = SubSeq(history, 1, histIndex + 1)
            /\ history'[n] = workCanvas'
            /\ histIndex' = n - 1
            /\ redoFrom(Shown') = Shown' ]_vars

\* The crop of a 4-pixel picture and the stroke before it were undone, and
\* the background-removal result saved then has replaced both snapshots.
C32_Witness ==
  /\ used.crops = 1 /\ used.removals = 1 /\ removing = <<>>
  /\ Len(history) = 2 /\ histIndex = 1
  /\ history[1].width = 4 /\ history[2].bgRemoved
  /\ workCanvas.width = 3 /\ workCanvas = history[2]

\* A step of undo or of redo: the index moved on an unchanged history.
IndexMoved == history' = history /\ histIndex' # histIndex

\* C33: undo and redo leave the work canvas exactly as it was when the
\* snapshot they move to was saved, with the same dimensions and the same
\* pixels, for every sequence of edits including autoCrop.
C33_UndoRestoresExactly ==
  [][ IndexMoved =>
        /\ workCanvas'.width = history'[histIndex' + 1].width
        /\ workCanvas'.height = history'[histIndex' + 1].height
        /\ workCanvas' = history'[histIndex' + 1] ]_vars

\* Undo then redo, and redo then undo, give back histIndex, the history and
\* the canvas.
RoundTrips ==
  /\ histIndex > 0 => redoFrom(undoFrom(Shown)) = Shown
  /\ histIndex < Len(history) - 1 => undoFrom(redoFrom(Shown)) = Shown

\* C34 as stated: from any state with histIndex > 0 undo followed by redo
\* leaves histIndex, the history and the canvas as they were, and likewise
\* redo followed by undo where a redo is available.
C34_InverseFromAnyState == RoundTrips

\* C34: undo and redo are inverse from any state in which no stroke is in
\* progress: undo followed by redo (where histIndex > 0), and redo followed
\* by undo (where a redo is available), leave histIndex, the history and the
\* canvas as they were.
C34_InverseAtRest == ~tool.isDrawing => RoundTrips

\* At rest in the middle of a history of three different snapshots, after
\* an undo: both round trips apply.
C34_Witness ==
  /\ ~tool.isDrawing /\ Len(history) = 3 /\ histIndex = 1
  /\ history[1] # history[2] /\ history[2] # history[3]
  /\ workCanvas = history[2]
  /\ undoFrom(Shown).workCanvas = history[1]
  /\ redoFrom(Shown).workCanvas = history[3]

\* A pending background removal settles with its result: it leaves the
\* list of pending removals and the canvas or the history changes.
ResultLands(i) ==
  /\ removing' = SubSeq(removing, 1, i - 1) \o SubSeq(removing, i + 1, Len(removing))
  /\ <<workCanvas, history, histIndex>>' # <<workCanvas, history, histIndex>>

\* C35: a background-removal result is written only to the image it was
\* computed from: when the result lands, the canvas still holds the picture
\* the blob was made of (no load, edit, crop, undo or redo has changed it
\* while autoRemoveBg was awaiting); a late result changes neither the
\* canvas nor the history.
C35_ResultOnlyOnSource ==
  [][ \A i \in 1..Len(removing) : ResultLands(i) => workCanvas = removing[i] ]_vars

\* The mousedown that starts drawing.
StrokeStarts == ~tool.isDrawing /\ tool'.isDrawing

\* A step inside a stroke: drawing before and after it.
StrokeGoesOn == tool.isDrawing /\ tool'.isDrawing

\* A pan gesture starts or ends with no stroke under way.
PanStep == isPanning' # isPanning /\ ~tool.isDrawing /\ ~tool'.isDrawing

\* The step saved exactly one snapshot of the canvas on top of the current
\* one.
OneSnapshotSaved ==
  /\ Len(history') = histIndex + 2
  /\ SubSeq(history', 1, histIndex + 1) = SubSeq(history, 1, histIndex + 1)
  /\ history'[histIndex + 2] = workCanvas'
  /\ histIndex' = histIndex + 1

\* A save that is not the stroke's: a load or a background removal
\* completes, or Auto-crop or the magic eraser is used.
OtherSave ==
  \/ Cardinality(loading') < Cardinality(loading)
  \/ Len(removing') < Len(removing)
  \/ used'.crops # used.crops
  \/ tool.active = "magic" /\ workCanvas'.erased = Pixels(workCanvas')

\* C36 as stated: each brush stroke adds exactly one history snapshot:
\* from the mousedown that starts drawing to the mouseup or mouseleave that
\* ends it no snapshot is saved, exactly one is saved at the end, and pan
\* gestures save none.
C36_NoSaveDuringStroke ==
  [][ /\ StrokeStarts \/ StrokeGoesOn => history' = history
      /\ StrokeSaved => OneSnapshotSaved
      /\ PanStep => history' = history /\ histIndex' = histIndex ]_vars

\* C36: the mouse handlers of a brush stroke save exactly one snapshot: the
\* mousedown that starts drawing saves none, the mouseup or mouseleave that
\* ends it saves exactly one, pan gestures save none, and while the stroke
\* is under way the history changes only by a save that is not the
\* stroke's (an image load or a background removal completing, Auto-crop,
\* the magic eraser).
C36_StrokeSavesOnce ==
  [][ /\ StrokeStarts => history' = history /\ histIndex' = histIndex
      /\ StrokeGoesOn /\ history' # history => OtherSave
      /\ StrokeSaved => OneSnapshotSaved
      /\ PanStep => history' = history /\ histIndex' = histIndex ]_vars

\* A stroke of two brush marks on the 4-pixel picture has ended with one
\* snapshot on top of the loaded one, none of them changed by the pan
\* gesture under way.
C36_Witness ==
  /\ isPanning /\ ~tool.isDrawing
  /\ Len(history) = 2 /\ histIndex = 1
  /\ history[1] = Picture([width |-> 4, height |-> 1])
  /\ history[2] = [history[1] EXCEPT !.erased = 2]
  /\ workCanvas = history[2]

====
